---- MODULE Spec2Model ----
(***************************************************************************)
(* Live-Auction-Server: the auction engine (auction-engine.ts), the        *)
(* coordinator (AuctionService), the arbiter (RedisService) and the        *)
(* durable log (AuctionPersistenceService) as one state machine.           *)
(*                                                                         *)
(* Node runs one synchronous segment at a time; every `await` is a point   *)
(* where other segments may run.  One action of this module is one         *)
(* synchronous segment of one async function, from the point where it is   *)
(* resumed to its next `await` (or its return).  A command sent to Redis   *)
(* takes effect when it is issued (one connection, commands are executed   *)
(* in the order sent); a Prisma call takes effect when issued or fails as  *)
(* a whole (every multi-row write is one transaction).                     *)
(***************************************************************************)
EXTENDS Integers, Sequences, FiniteSets, TLC

\* ------------------------------------------------------------- bounds
NItems == 2
MaxAmount == 3
MaxCalls == 2
MaxCrashes == 1
MaxFaults == 1

AuctionIds == {"a1"}
Users == {"u1", "u2"}
NULL == "null"
NoKey == ""
IdemKeys == {"k1"}
Amounts == 2..MaxAmount
ItemIndexes == 0..(NItems - 1)
CallIds == 1..MaxCalls

SellerOf(a) == "seller-1"
Sellers == {"seller-1", "someone-else"}
StartingPriceOf(i) == 1
\* keys that leave the auction out
ItemIdShared(a, i) == <<"a1", i>>

ItemId(a, i) == <<a, i>>
ItemIdsOf(ids) == {ItemId(a, i) : a \in ids, i \in ItemIndexes}
ItemIds == ItemIdsOf(AuctionIds)

\* an optional value: <<>> is null/absent, <<v>> is v
None == <<>>
Some(v) == <<v>>
IsSome(o) == Len(o) = 1
Val(o) == o[1]

\* ------------------------------------------------------------- engine
NewItem(i) ==
  [ startingPrice |-> StartingPriceOf(i), status |-> "PENDING",
    highestBid |-> StartingPriceOf(i), highestBidderId |-> NULL,
    extended |-> FALSE ]

NewEngine(a) ==
  [ id |-> a, sellerId |-> SellerOf(a), status |-> "CREATED",
    items |-> [k \in 1..NItems |-> NewItem(k - 1)], currentItemIndex |-> 0 ]

\* getCurrentItem: items[currentItemIndex] ?? null (items are 0-indexed in the source)
HasCurrentItem(s) == s.currentItemIndex + 1 \in DOMAIN s.items
CurrentItem(s) == s.items[s.currentItemIndex + 1]
CurrentItemLive(s) == HasCurrentItem(s) /\ CurrentItem(s).status = "LIVE"

\* new AuctionEngine(id, {sellerId, items: []})
EmptyEngine(a) == [NewEngine(a) EXCEPT !.items = << >>]

\* a start that does not look at the status
EngineStartAuctionAnyStatus(s) ==
  IF Len(s.items) = 0 THEN [ok |-> FALSE, state |-> s]
  ELSE [ok |-> TRUE,
        state |-> [s EXCEPT !.status = "LIVE",
                            !.items[1].status = "LIVE",
                            !.items[1].highestBid = s.items[1].startingPrice]]

EngineStartAuction(s) ==
  IF s.status # "CREATED" THEN [ok |-> FALSE, state |-> s]
  ELSE IF Len(s.items) = 0 THEN [ok |-> FALSE, state |-> s]
  ELSE [ok |-> TRUE,
        state |-> [s EXCEPT !.status = "LIVE",
                            !.items[1].status = "LIVE",
                            !.items[1].highestBid = s.items[1].startingPrice]]

\* a placeBid that accepts and records nothing
EnginePlaceBidForgets(s, userId, amount) ==
  IF s.status # "LIVE" THEN [ok |-> FALSE, state |-> s]
  ELSE IF ~CurrentItemLive(s) THEN [ok |-> FALSE, state |-> s]
  ELSE IF amount <= CurrentItem(s).highestBid THEN [ok |-> FALSE, state |-> s]
  ELSE [ok |-> TRUE, state |-> s]

EnginePlaceBid(s, userId, amount) ==
  IF s.status # "LIVE" THEN [ok |-> FALSE, state |-> s]
  ELSE IF ~CurrentItemLive(s) THEN [ok |-> FALSE, state |-> s]
  ELSE IF amount <= CurrentItem(s).highestBid THEN [ok |-> FALSE, state |-> s]
  ELSE [ok |-> TRUE,
        state |-> [s EXCEPT !.items[s.currentItemIndex + 1].highestBid = amount,
                            !.items[s.currentItemIndex + 1].highestBidderId = userId]]

HadBids(item) == item.highestBidderId # NULL /\ item.highestBid > item.startingPrice

EngineEndCurrentItem(s) ==
  IF s.status # "LIVE" \/ ~CurrentItemLive(s)
  THEN [ok |-> FALSE, state |-> s, itemIndex |-> 0, winnerId |-> NULL,
        finalPrice |-> 0, hadBids |-> FALSE]
  ELSE LET item == CurrentItem(s) IN
       [ok |-> TRUE,
        state |-> [s EXCEPT !.items[s.currentItemIndex + 1].status =
                              IF HadBids(item) THEN "SOLD" ELSE "UNSOLD"],
        itemIndex |-> s.currentItemIndex,
        winnerId |-> item.highestBidderId,
        finalPrice |-> item.highestBid,
        hadBids |-> HadBids(item)]

EngineAdvanceToNextItem(s) ==
  IF s.status # "LIVE" THEN [ok |-> FALSE, state |-> s]
  ELSE LET nextIndex == s.currentItemIndex + 1 IN
       IF nextIndex >= Len(s.items)
       THEN [ok |-> TRUE, state |-> [s EXCEPT !.status = "ENDED"]]
       ELSE [ok |-> TRUE,
             state |-> [s EXCEPT !.currentItemIndex = nextIndex,
                                 !.items[nextIndex + 1].status = "LIVE",
                                 !.items[nextIndex + 1].highestBid =
                                    s.items[nextIndex + 1].startingPrice]]

EngineExtendCurrentItem(s) ==
  IF s.status # "LIVE" \/ ~CurrentItemLive(s) \/ CurrentItem(s).extended
  THEN [ok |-> FALSE, state |-> s]
  ELSE [ok |-> TRUE,
        state |-> [s EXCEPT !.items[s.currentItemIndex + 1].extended = TRUE]]

\* endAuction: the summary; winnerId is filtered by SOLD only when the call
\* itself ends the auction
EngineEndAuction(s) ==
  IF s.status = "ENDED"
  THEN [state |-> s,
        results |-> [k \in DOMAIN s.items |->
                       [winnerId |-> s.items[k].highestBidderId,
                        finalPrice |-> s.items[k].highestBid]]]
  ELSE [state |-> [s EXCEPT !.status = "ENDED"],
        results |-> [k \in DOMAIN s.items |->
                       [winnerId |-> IF s.items[k].status = "SOLD"
                                     THEN s.items[k].highestBidderId ELSE NULL,
                        finalPrice |-> s.items[k].highestBid]]]


\* ------------------------------------------------------------- engine snapshots
\* Number.POSITIVE_INFINITY: a number above every finite amount
Infinity == MaxAmount + 1
\* JSON null where the state has a number
NullNumber == 0 - 1

\* JSON.stringify writes a number that is not finite as null
JsonNumber(n) == IF n = Infinity THEN NullNumber ELSE n

\* JSON.parse(JSON.stringify(s)) of an AuctionState
JsonCopy(s) ==
  [s EXCEPT !.items = [k \in DOMAIN s.items |->
                         [s.items[k] EXCEPT !.startingPrice = JsonNumber(@),
                                            !.highestBid = JsonNumber(@)]],
            !.currentItemIndex = JsonNumber(@)]

\* a getState that hands out a copy of the state object with the same items
EngineGetStateShallow(s) == [value |-> s, shared |-> {"items"}]

\* getState: the object handed out and the parts it shares with this.state
\* ("state": the state object itself, "items": its items array and item objects)
EngineGetState(s) == [value |-> JsonCopy(s), shared |-> {}]

\* setState(x): the new this.state and the parts it shares with x
EngineSetState(x) == [state |-> JsonCopy(x), shared |-> {}]

\* what the caller writes into an object it holds: a nested item field and
\* a field of the state object
Scribbles == {"items", "state"}
Scribbled(x, part) ==
  IF part = "items" THEN [x EXCEPT !.items[1].highestBid = 0]
  ELSE [x EXCEPT !.status = "ENDED"]

\* ------------------------------------------------------------- state
VARIABLES
  auctions,      \* AuctionService.auctions: auctionId -> AuctionEntry (in memory)
  orphanTimers,  \* armed setTimeout handles no AuctionEntry refers to any more
  lockQ,         \* AuctionService.auctionLocks: the promise chain per auction, as a FIFO
  calls,         \* placeBid invocations: parameters, position, locals, result
  start,         \* startAuction invocation in flight, per auction
  exp,           \* onItemTimerExpired invocation holding the lock, per auction
  redisBid,      \* Redis auction:<a>:item:<i>:highest_bid
  redisBidder,   \* Redis auction:<a>:item:<i>:highest_bidder
  idemPending,   \* Redis ...:idem:<key>:pending keys present
  idemResult,    \* Redis ...:idem:<key>:result values
  dbAuction,     \* Prisma Auction rows
  dbItem,        \* Prisma AuctionItem rows
  dbBids,        \* Prisma Bid rows, in creation order
  dbResult,      \* Prisma ItemResult rows
  epoch,         \* number of process restarts so far
  faults,        \* number of failed Redis/Prisma calls so far
  ttlExpired,    \* idempotency scopes one of whose keys has expired (EX ttl)
  now,           \* Date.now()
  budget,        \* the failures and restarts the environment may still cause
  room,          \* what AuctionGateway has sent to the auction's room, in order
  probe,         \* an AuctionEngine on its own and the objects its caller holds
  extRefused     \* the last extendItem call that returned extended:false, per auction

memVars == <<auctions, orphanTimers, lockQ, calls, start, exp>>
redisVars == <<redisBid, redisBidder, idemPending, idemResult>>
dbVars == <<dbAuction, dbItem, dbBids, dbResult>>
envVars == <<epoch, faults, ttlExpired, now, budget>>
auxVars == <<probe, extRefused>>
vars == <<memVars, redisVars, dbVars, envVars, room, auxVars>>

\* new AuctionEngine('a1', input); the caller holds nothing yet
NewProbe == [engine |-> NewEngine("a1"), a |-> None, engine2 |-> None, given |-> {}]

\* ------------------------------------------------------------- results
Accepted == [accepted |-> TRUE, reason |-> "", n |-> 0]
Rejected(reason, n) == [accepted |-> FALSE, reason |-> reason, n |-> n]
NoResult == [accepted |-> FALSE, reason |-> "(none)", n |-> 0]
\* the two reasons placeBid gives for refusing an amount (the first one carries
\* the highest bid it was compared with, field n)
TooLow == "Bid must be higher than current highest"
Outpaced == "Bid was outpaced by another bidder"
NotLiveReason(status) ==
  IF status = "CREATED" THEN "Auction is not live (status: CREATED)"
  ELSE "Auction is not live (status: ENDED)"

\* idempotencyKey?.trim().slice(0, 128) || null
RawKeys == {"", " ", "k1"}
NormalizeKey(raw) == IF raw = " " THEN NoKey ELSE raw

IdemScope(a, i, userId, key) == <<ItemId(a, i), userId, key>>
IdemScopes == {IdemScope(a, i, u, k) : a \in AuctionIds, i \in ItemIndexes,
                                       u \in Users, k \in IdemKeys}

\* ------------------------------------------------------------- arbiter
\* a script that returns 0 whatever it is given
AtomicBidCheckRefuses(cur, curBidder, newBid, bidderId) ==
  [accepted |-> FALSE, bid |-> cur, bidder |-> curBidder]

\* ATOMIC_BID_SCRIPT: [accepted, highest_bid', highest_bidder']
AtomicBidCheck(cur, curBidder, newBid, bidderId) ==
  IF ~IsSome(cur) \/ newBid > Val(cur)
  THEN [accepted |-> TRUE, bid |-> Some(newBid), bidder |-> bidderId]
  ELSE [accepted |-> FALSE, bid |-> cur, bidder |-> curBidder]

\* ------------------------------------------------------------- timers
DEFAULT_ITEM_DURATION_SEC == 60
DEFAULT_EXTRA_DURATION_SEC == 15
Max(x, y) == IF x >= y THEN x ELSE y

\* a scheduler that gives an extended item its full duration again
ScheduleItemExpiryResets(entry, t) ==
  LET s == entry.engine IN
  IF s.status # "LIVE" \/ ~CurrentItemLive(s) THEN [entry EXCEPT !.itemTimer = "null"]
  ELSE [entry EXCEPT !.itemTimer = "armed",
                     !.itemEndTimeMs =
                        Some(t + DEFAULT_ITEM_DURATION_SEC * 1000
                               + (IF CurrentItem(s).extended
                                  THEN DEFAULT_EXTRA_DURATION_SEC * 1000 ELSE 0))]

\* a scheduler that arms nothing
ScheduleItemExpiryNever(entry, t) == [entry EXCEPT !.itemTimer = "null"]

\* scheduleItemExpiry on an entry at time t; itemTimer is "null", "armed"
\* (setTimeout pending) or "fired" (callback already queued: clearTimeout
\* does nothing any more)
ScheduleItemExpiry(entry, t) ==
  LET hadActiveTimer == entry.itemTimer # "null"
      previousEndTimeMs == entry.itemEndTimeMs
      s == entry.engine
      cleared == [entry EXCEPT !.itemTimer = "null"]
  IN  IF s.status # "LIVE" \/ ~CurrentItemLive(s) THEN cleared
      ELSE LET item == CurrentItem(s)
               baseDurationMs == DEFAULT_ITEM_DURATION_SEC * 1000
               extensionMs == IF item.extended
                              THEN DEFAULT_EXTRA_DURATION_SEC * 1000 ELSE 0
               durationMs ==
                 IF hadActiveTimer /\ IsSome(previousEndTimeMs) /\ item.extended
                 THEN Max(0, Val(previousEndTimeMs) - t)
                        + DEFAULT_EXTRA_DURATION_SEC * 1000
                 ELSE baseDurationMs + extensionMs
           IN [entry EXCEPT !.itemTimer = "armed",
                            !.itemEndTimeMs = Some(t + durationMs)]

\* ------------------------------------------------------------- log
\* a recovery that rebuilds the items without their bids
ToEngineStateFresh(a) ==
  [ id |-> a, sellerId |-> SellerOf(a), status |-> dbAuction[a].status,
    items |-> [k \in 1..NItems |->
                 [ startingPrice |-> StartingPriceOf(k - 1),
                   status |-> dbItem[ItemId(a, k - 1)].status,
                   highestBid |-> StartingPriceOf(k - 1),
                   highestBidderId |-> NULL,
                   extended |-> dbItem[ItemId(a, k - 1)].extended ]],
    currentItemIndex |-> dbAuction[a].currentItemIndex ]

\* toEngineState: the engine state of an Auction row and its items
ToEngineState(a) ==
  [ id |-> a, sellerId |-> SellerOf(a), status |-> dbAuction[a].status,
    items |-> [k \in 1..NItems |->
                 [ startingPrice |-> StartingPriceOf(k - 1),
                   status |-> dbItem[ItemId(a, k - 1)].status,
                   highestBid |-> dbItem[ItemId(a, k - 1)].highestBid,
                   highestBidderId |-> dbItem[ItemId(a, k - 1)].highestBidderId,
                   extended |-> dbItem[ItemId(a, k - 1)].extended ]],
    currentItemIndex |-> dbAuction[a].currentItemIndex ]

\* getState: the registry's engine first, the log for an auction it no longer holds
GetState(a) == IF a \in DOMAIN auctions THEN auctions[a].engine ELSE ToEngineState(a)

\* persistAuction of a freshly created engine
InitialItemRow(i) ==
  [status |-> "PENDING", highestBid |-> StartingPriceOf(i),
   highestBidderId |-> NULL, extended |-> FALSE]

\* a Redis or Prisma call either succeeds or fails (connection lost, constraint)
Outcomes == IF faults < budget.faults THEN {TRUE, FALSE} ELSE {TRUE}
Charge(ok) == IF ok THEN faults ELSE faults + 1

NoEntryTimer == "null"
NewEntry(engine) == [engine |-> engine, itemTimer |-> NoEntryTimer, itemEndTimeMs |-> None]

UnusedCall ==
  [pc |-> "unused", auctionId |-> "a1", userId |-> "u1", amount |-> 0, key |-> "",
   itemIndex |-> 0, seen |-> 0, flag |-> FALSE, attempts |-> 0,
   result |-> NoResult, epoch |-> 0, wrote |-> FALSE, ahead |-> <<>>]
IdleExp == [pc |-> "idle", itemIndex |-> 0, winnerId |-> NULL, finalPrice |-> 0]

\* createAuction has run for every auction of ids: engine CREATED in memory
\* and in the log
CreatedOn(ids, b) ==
  /\ auctions = [a \in ids |-> NewEntry(NewEngine(a))]
  /\ orphanTimers = [a \in ids |-> 0]
  /\ lockQ = [a \in ids |-> <<>>]
  /\ calls = [c \in CallIds |-> UnusedCall]
  /\ start = [a \in ids |-> "idle"]
  /\ exp = [a \in ids |-> IdleExp]
  /\ redisBid = [i \in ItemIdsOf(ids) |-> None]
  /\ redisBidder = [i \in ItemIdsOf(ids) |-> NULL]
  /\ idemPending = {}
  /\ idemResult = [s \in IdemScopes |-> None]
  /\ dbAuction = [a \in ids |-> [status |-> "CREATED", currentItemIndex |-> 0]]
  /\ dbItem = [i \in ItemIdsOf(ids) |-> InitialItemRow(i[2])]
  /\ dbBids = <<>>
  /\ dbResult = [i \in ItemIdsOf(ids) |-> None]
  /\ epoch = 0
  /\ faults = 0
  /\ ttlExpired = {}
  /\ now = 0
  /\ budget = b
  /\ room = [a \in ids |-> <<>>]
  /\ probe = NewProbe
  /\ extRefused = [a \in ids |-> None]

Created(b) == CreatedOn(AuctionIds, b)

Init == Created([faults |-> MaxFaults, restarts |-> MaxCrashes])
\* a run in which no call fails and the process is never restarted
InitReliable == Created([faults |-> 0, restarts |-> 0])


\* ------------------------------------------------------------- broadcast
\* an emitState that sends nothing to the room
EmitStateSilent(a, registry) == << >>

\* AuctionGateway.onModuleInit: what a stateChange event puts into the room.
\* emitState sends the engine state with itemEndTime; nothing without an entry
EmitState(a, registry) ==
  IF a \in DOMAIN registry
  THEN << [event |-> "auction_state", state |-> registry[a].engine,
           itemEndTime |-> registry[a].itemEndTimeMs] >>
  ELSE << >>

\* item_sold {itemId, winnerId, finalPrice}, then auction_state with the state
\* taken after endCurrentItem (that state has no itemEndTime)
ItemSold(i, winnerId, finalPrice, state) ==
  << [event |-> "item_sold", itemIndex |-> i, winnerId |-> winnerId,
      finalPrice |-> finalPrice],
     [event |-> "auction_state", state |-> state, itemEndTime |-> None] >>

\* auction_ended {auctionId, results}, then auction_state
AuctionEnded(state) ==
  << [event |-> "auction_ended", results |-> EngineEndAuction(state).results],
     [event |-> "auction_state", state |-> state, itemEndTime |-> None] >>

Sent(a, events) == [room EXCEPT ![a] = @ \o events]


\* ------------------------------------------------------------- lock
\* withAuctionLock: callers are chained in the order they asked; the head of
\* the chain runs, `finally` releases it
Holds(a, who) == lockQ[a] # <<>> /\ Head(lockQ[a]) = who
Enqueued(a, who) == [lockQ EXCEPT ![a] = Append(@, who)]
\* a chain whose head is never taken off
ReleasedNever(a) == lockQ
Released(a) == [lockQ EXCEPT ![a] = Tail(@)]
ExpiryTask == 0

\* ------------------------------------------------------------- startAuction
\* lines 176-192: engine transition, then seedItem is sent
StartAuction(a) ==
  /\ a \in DOMAIN auctions
  /\ LET r == EngineStartAuction(auctions[a].engine) IN
     /\ r.ok
     /\ auctions' = [auctions EXCEPT ![a].engine = r.state]
     /\ \E ok \in Outcomes :
          /\ faults' = Charge(ok)
          /\ IF ok
             THEN /\ redisBid' = [redisBid EXCEPT ![ItemId(a, 0)] =
                                     Some(r.state.items[1].startingPrice)]
                  /\ redisBidder' = [redisBidder EXCEPT ![ItemId(a, 0)] = NULL]
                  /\ start' = [start EXCEPT ![a] = "seeded"]
             ELSE UNCHANGED <<redisBid, redisBidder, start>>
  /\ UNCHANGED <<orphanTimers, lockQ, calls, exp, idemPending, idemResult,
                 dbVars, epoch, ttlExpired, now, budget>>
  /\ UNCHANGED <<room, auxVars>>

\* lines 195-197: persistAuctionStatus(auctionId, 'LIVE')
StartPersistStatus(a) ==
  /\ start[a] = "seeded"
  /\ \E ok \in Outcomes :
       /\ faults' = Charge(ok)
       /\ IF ok
          THEN /\ dbAuction' = [dbAuction EXCEPT ![a].status = "LIVE"]
               /\ start' = [start EXCEPT ![a] = "statusPersisted"]
          ELSE /\ start' = [start EXCEPT ![a] = "idle"]
               /\ UNCHANGED dbAuction
  /\ UNCHANGED <<auctions, orphanTimers, lockQ, calls, exp, redisVars,
                 dbItem, dbBids, dbResult, epoch, ttlExpired, now, budget>>
  /\ UNCHANGED <<room, auxVars>>

\* lines 198-200: persistItemStatus(firstItem.id, 'LIVE')
StartPersistItem(a) ==
  /\ start[a] = "statusPersisted"
  /\ \E ok \in Outcomes :
       /\ faults' = Charge(ok)
       /\ IF ok
          THEN /\ dbItem' = [dbItem EXCEPT ![ItemId(a, 0)].status = "LIVE"]
               /\ start' = [start EXCEPT ![a] = "itemPersisted"]
          ELSE /\ start' = [start EXCEPT ![a] = "idle"]
               /\ UNCHANGED dbItem
  /\ UNCHANGED <<auctions, orphanTimers, lockQ, calls, exp, redisVars,
                 dbAuction, dbBids, dbResult, epoch, ttlExpired, now, budget>>
  /\ UNCHANGED <<room, auxVars>>

\* lines 202-204: scheduleItemExpiry, emitState, return
StartFinish(a) ==
  /\ start[a] = "itemPersisted"
  /\ start' = [start EXCEPT ![a] = "idle"]
  /\ auctions' = IF a \in DOMAIN auctions
                 THEN [auctions EXCEPT ![a] = ScheduleItemExpiry(@, now)]
                 ELSE auctions
  /\ UNCHANGED <<orphanTimers, lockQ, calls, exp, redisVars, dbVars, envVars>>
  /\ room' = Sent(a, EmitState(a, auctions'))
  /\ UNCHANGED auxVars

\* ------------------------------------------------------------- extendItem
\* one synchronous segment: nothing is awaited (persistItemExtension is
\* fire-and-forget with its error logged)
\* an extendItem without the permission check
ExtendRefusalAnySeller(a, sellerId) ==
  IF a \notin DOMAIN auctions THEN Some("Auction not found")
  ELSE LET s == auctions[a].engine IN
       IF s.status # "LIVE" THEN Some(NotLiveReason(s.status))
       ELSE IF ~CurrentItemLive(s) THEN Some("No item currently live")
       ELSE IF CurrentItem(s).extended THEN Some("Item already extended")
       ELSE None
\* what extendItem(a, sellerId) returns when it returns extended:false
ExtendRefusal(a, sellerId) ==
  IF a \notin DOMAIN auctions THEN Some("Auction not found")
  ELSE IF auctions[a].engine.sellerId # sellerId THEN Some("Not the seller")
  ELSE LET s == auctions[a].engine IN
       IF s.status # "LIVE" THEN Some(NotLiveReason(s.status))
       ELSE IF ~CurrentItemLive(s) THEN Some("No item currently live")
       ELSE IF CurrentItem(s).extended THEN Some("Item already extended")
       ELSE None

ExtendItem(a, sellerId) ==
  /\ a \in DOMAIN auctions
  /\ ExtendRefusal(a, sellerId) = None
  /\ LET state == auctions[a].engine
         r == EngineExtendCurrentItem(state)
     IN /\ r.ok
        /\ auctions' = [auctions EXCEPT ![a] =
                          ScheduleItemExpiry([@ EXCEPT !.engine = r.state], now)]
        /\ \E ok \in Outcomes :
             /\ faults' = Charge(ok)
             /\ dbItem' = IF ok
                          THEN [dbItem EXCEPT
                                  ![ItemId(a, state.currentItemIndex)].extended = TRUE]
                          ELSE dbItem
  /\ UNCHANGED <<orphanTimers, lockQ, calls, start, exp, redisVars,
                 dbAuction, dbBids, dbResult, epoch, ttlExpired, now, budget>>
  /\ room' = Sent(a, EmitState(a, auctions'))
  /\ UNCHANGED auxVars

\* extendItem returning extended:false: every early return of the handler
ExtendItemRefused(a, sellerId) ==
  /\ IsSome(ExtendRefusal(a, sellerId))
  /\ extRefused' = [extRefused EXCEPT ![a] =
                      Some([sellerId |-> sellerId, reason |-> Val(ExtendRefusal(a, sellerId))])]
  /\ extRefused' # extRefused
  /\ UNCHANGED <<memVars, redisVars, dbVars, envVars, room, probe>>

\* ------------------------------------------------------------- timers
\* the setTimeout callback runs: onItemTimerExpired asks for the lock
TimerFire(a) ==
  /\ \/ /\ a \in DOMAIN auctions
        /\ auctions[a].itemTimer = "armed"
        /\ auctions' = [auctions EXCEPT ![a].itemTimer = "fired"]
        /\ UNCHANGED orphanTimers
     \/ /\ orphanTimers[a] > 0
        /\ orphanTimers' = [orphanTimers EXCEPT ![a] = @ - 1]
        /\ UNCHANGED auctions
  /\ lockQ' = Enqueued(a, ExpiryTask)
  /\ UNCHANGED <<calls, start, exp, redisVars, dbVars, envVars>>
  /\ UNCHANGED <<room, auxVars>>


\* the timer of the entry fires no earlier than the end time it was armed with
\* (setTimeout(fn, durationMs)); a timer the entry has lost track of may fire
\* at any time
TimerDue(a) ==
  /\ TimerFire(a)
  /\ auctions' # auctions => now >= Val(auctions[a].itemEndTimeMs)

\* Date.now() moves on between two segments
MaxTicks == 9
TickMs == DEFAULT_EXTRA_DURATION_SEC * 1000
Tick ==
  /\ now < MaxTicks * TickMs
  /\ now' = now + TickMs
  /\ UNCHANGED <<memVars, redisVars, dbVars, epoch, faults, ttlExpired, budget, room, auxVars>>

\* ------------------------------------------------------------- onItemTimerExpired
\* persistItemResult: one transaction; itemResult.create fails on an existing
\* row (itemId is unique) and then nothing is written
PersistItemResultApplies(item, winnerId) == winnerId = NULL \/ ~IsSome(dbResult[item])
ItemRowAfterResult(row, winnerId, finalPrice) ==
  [row EXCEPT !.status = IF winnerId # NULL THEN "SOLD" ELSE "UNSOLD",
              !.highestBid = finalPrice,
              !.highestBidderId = winnerId]

\* lines 383-404: lock acquired; timer fields reset; endCurrentItem; persistItemResult sent
ExpEnter(a) ==
  /\ Holds(a, ExpiryTask)
  /\ exp[a].pc = "idle"
  /\ IF a \notin DOMAIN auctions
     THEN /\ lockQ' = Released(a)
          /\ UNCHANGED <<auctions, orphanTimers, exp, dbItem, dbResult, faults>>
     ELSE LET entry == auctions[a]
              r == EngineEndCurrentItem(entry.engine)
              item == ItemId(a, r.itemIndex)
          IN /\ orphanTimers' = IF entry.itemTimer = "armed"
                                THEN [orphanTimers EXCEPT ![a] = @ + 1]
                                ELSE orphanTimers
             /\ auctions' = [auctions EXCEPT ![a] =
                               [engine |-> r.state, itemTimer |-> "null",
                                itemEndTimeMs |-> None]]
             /\ IF ~r.ok
                THEN /\ lockQ' = Released(a)
                     /\ UNCHANGED <<exp, dbItem, dbResult, faults>>
                ELSE /\ exp' = [exp EXCEPT ![a] =
                                  [pc |-> "itemPersisted", itemIndex |-> r.itemIndex,
                                   winnerId |-> r.winnerId, finalPrice |-> r.finalPrice]]
                     /\ \E ok \in Outcomes :
                          /\ faults' = Charge(ok)
                          /\ IF ok /\ PersistItemResultApplies(item, r.winnerId)
                             THEN /\ dbItem' = [dbItem EXCEPT ![item] =
                                       ItemRowAfterResult(@, r.winnerId, r.finalPrice)]
                                  /\ dbResult' = IF r.winnerId # NULL
                                       THEN [dbResult EXCEPT ![item] =
                                               Some([winnerId |-> r.winnerId,
                                                     finalPrice |-> r.finalPrice])]
                                       ELSE dbResult
                             ELSE UNCHANGED <<dbItem, dbResult>>
                     /\ UNCHANGED lockQ
  /\ UNCHANGED <<calls, start, redisVars, dbAuction, dbBids, epoch, ttlExpired, now, budget>>
  /\ UNCHANGED <<room, auxVars>>

\* line 407: redis.clearItem is sent; a failure leaves the handler by exception
ExpClearItem(a) ==
  /\ exp[a].pc = "itemPersisted"
  /\ \E ok \in Outcomes :
       /\ faults' = Charge(ok)
       /\ IF ok
          THEN /\ redisBid' = [redisBid EXCEPT ![ItemId(a, exp[a].itemIndex)] = None]
               /\ redisBidder' = [redisBidder EXCEPT ![ItemId(a, exp[a].itemIndex)] = NULL]
               /\ exp' = [exp EXCEPT ![a].pc = "itemCleared"]
               /\ UNCHANGED lockQ
          ELSE /\ exp' = [exp EXCEPT ![a] = IdleExp]
               /\ lockQ' = Released(a)
               /\ UNCHANGED <<redisBid, redisBidder>>
  /\ UNCHANGED <<auctions, orphanTimers, calls, start, idemPending, idemResult,
                 dbVars, epoch, ttlExpired, now, budget>>
  /\ UNCHANGED <<room, auxVars>>

\* persistAuctionEnd: status ENDED and an ItemResult upsert per result with a winner
ResultsAfterAuctionEnd(a, results) ==
  [i \in DOMAIN dbResult |->
     IF i[1] = a /\ results[i[2] + 1].winnerId # NULL
     THEN Some([winnerId |-> results[i[2] + 1].winnerId,
                finalPrice |-> results[i[2] + 1].finalPrice])
     ELSE dbResult[i]]

\* lines 409-460: item_sold is emitted, the engine advances; then either
\* endAuction + persistAuctionEnd is sent, or seedItem for the next item
ExpAdvance(a) ==
  /\ exp[a].pc = "itemCleared"
  /\ LET r == EngineAdvanceToNextItem(auctions[a].engine) IN
     IF ~r.ok
     THEN /\ exp' = [exp EXCEPT ![a] = IdleExp]
          /\ lockQ' = Released(a)
          /\ UNCHANGED <<auctions, redisBid, redisBidder, dbAuction, dbResult, faults>>
     ELSE IF r.state.status = "ENDED"
     THEN LET e == EngineEndAuction(r.state) IN
          /\ auctions' = [auctions EXCEPT ![a].engine = e.state]
          /\ exp' = [exp EXCEPT ![a].pc = "endPersisted"]
          /\ \E ok \in Outcomes :
               /\ faults' = Charge(ok)
               /\ IF ok
                  THEN /\ dbAuction' = [dbAuction EXCEPT ![a].status = "ENDED"]
                       /\ dbResult' = ResultsAfterAuctionEnd(a, e.results)
                  ELSE UNCHANGED <<dbAuction, dbResult>>
          /\ UNCHANGED <<lockQ, redisBid, redisBidder>>
     ELSE LET next == r.state.currentItemIndex IN
          /\ auctions' = [auctions EXCEPT ![a].engine = r.state]
          /\ \E ok \in Outcomes :
               /\ faults' = Charge(ok)
               /\ IF ok
                  THEN /\ redisBid' = [redisBid EXCEPT ![ItemId(a, next)] =
                                         Some(r.state.items[next + 1].startingPrice)]
                       /\ redisBidder' = [redisBidder EXCEPT ![ItemId(a, next)] = NULL]
                       /\ exp' = [exp EXCEPT ![a].pc = "nextSeeded",
                                             ![a].itemIndex = next]
                       /\ UNCHANGED lockQ
                  ELSE /\ exp' = [exp EXCEPT ![a] = IdleExp]
                       /\ lockQ' = Released(a)
                       /\ UNCHANGED <<redisBid, redisBidder>>
          /\ UNCHANGED <<dbAuction, dbResult>>
  /\ UNCHANGED <<orphanTimers, calls, start, idemPending, idemResult,
                 dbItem, dbBids, epoch, ttlExpired, now, budget>>
  /\ room' = Sent(a, ItemSold(exp[a].itemIndex, exp[a].winnerId, exp[a].finalPrice, auctions[a].engine))
  /\ UNCHANGED auxVars

\* lines 438-439: redis.clearAuction(auctionId, itemIds) is sent
ExpClearAuction(a) ==
  /\ exp[a].pc = "endPersisted"
  /\ \E ok \in Outcomes :
       /\ faults' = Charge(ok)
       /\ IF ok
          THEN /\ redisBid' = [i \in DOMAIN redisBid |-> IF i[1] = a THEN None ELSE redisBid[i]]
               /\ redisBidder' = [i \in DOMAIN redisBidder |-> IF i[1] = a THEN NULL ELSE redisBidder[i]]
               /\ exp' = [exp EXCEPT ![a].pc = "auctionCleared"]
               /\ UNCHANGED lockQ
          ELSE /\ exp' = [exp EXCEPT ![a] = IdleExp]
               /\ lockQ' = Released(a)
               /\ UNCHANGED <<redisBid, redisBidder>>
  /\ UNCHANGED <<auctions, orphanTimers, calls, start, idemPending, idemResult,
                 dbVars, epoch, ttlExpired, now, budget>>
  /\ UNCHANGED <<room, auxVars>>

\* lines 441-450: auction_ended is emitted, the entry leaves the registry
ExpEndFinish(a) ==
  /\ exp[a].pc = "auctionCleared"
  /\ auctions' = [x \in DOMAIN auctions \ {a} |-> auctions[x]]
  /\ exp' = [exp EXCEPT ![a] = IdleExp]
  /\ lockQ' = Released(a)
  /\ UNCHANGED <<orphanTimers, calls, start, redisVars, dbVars, envVars>>
  /\ room' = Sent(a, AuctionEnded(auctions[a].engine))
  /\ UNCHANGED auxVars

\* lines 461-468: persistItemStatus(nextItem.id, 'LIVE'), error logged
ExpPersistNext(a) ==
  /\ exp[a].pc = "nextSeeded"
  /\ exp' = [exp EXCEPT ![a].pc = "nextPersisted"]
  /\ \E ok \in Outcomes :
       /\ faults' = Charge(ok)
       /\ dbItem' = IF ok
                    THEN [dbItem EXCEPT ![ItemId(a, exp[a].itemIndex)].status = "LIVE"]
                    ELSE dbItem
  /\ UNCHANGED <<auctions, orphanTimers, lockQ, calls, start, redisVars,
                 dbAuction, dbBids, dbResult, epoch, ttlExpired, now, budget>>
  /\ UNCHANGED <<room, auxVars>>

\* lines 469-476: persistCurrentItemIndex, error logged
ExpPersistIndex(a) ==
  /\ exp[a].pc = "nextPersisted"
  /\ exp' = [exp EXCEPT ![a].pc = "indexPersisted"]
  /\ \E ok \in Outcomes :
       /\ faults' = Charge(ok)
       /\ dbAuction' = IF ok
                       THEN [dbAuction EXCEPT ![a].currentItemIndex = exp[a].itemIndex]
                       ELSE dbAuction
  /\ UNCHANGED <<auctions, orphanTimers, lockQ, calls, start, redisVars,
                 dbItem, dbBids, dbResult, epoch, ttlExpired, now, budget>>
  /\ UNCHANGED <<room, auxVars>>

\* lines 479-481: scheduleItemExpiry, emitState, lock released
ExpFinish(a) ==
  /\ exp[a].pc = "indexPersisted"
  /\ auctions' = IF a \in DOMAIN auctions
                 THEN [auctions EXCEPT ![a] = ScheduleItemExpiry(@, now)]
                 ELSE auctions
  /\ exp' = [exp EXCEPT ![a] = IdleExp]
  /\ lockQ' = Released(a)
  /\ UNCHANGED <<orphanTimers, calls, start, redisVars, dbVars, envVars>>
  /\ room' = Sent(a, EmitState(a, auctions'))
  /\ UNCHANGED auxVars


\* ------------------------------------------------------------- placeBid
maxAttempts == 40

\* a store that never has an outcome
GetBidIdempotencyResultMisses(sc) == None

\* getBidIdempotencyResult: the stored outcome of a scope, if any
GetBidIdempotencyResult(sc) == idemResult[sc]

\* a claim that always wins
ClaimBidIdempotencyWins(sc) == TRUE

\* claimBidIdempotency: SET pending NX answers OK unless the marker is there
ClaimBidIdempotency(sc) == sc \notin idemPending

\* the one Redis connection answers in the order the commands were sent. A bid
\* reaches Redis only on a LIVE engine, so after startAuction sent seedItem:
\* the bid's reply is delivered after startAuction has resumed from its own
SeedReplied(a) == start[a] # "seeded"

Scope(rec) == IdemScope(rec.auctionId, rec.itemIndex, rec.userId, NormalizeKey(rec.key))
Done(rec, result) ==
  [rec EXCEPT !.pc = "done", !.result = result, !.flag = FALSE, !.attempts = 0,
              !.seen = 0]
Threw(rec) ==
  [rec EXCEPT !.pc = "threw", !.result = NoResult, !.flag = FALSE, !.attempts = 0,
              !.seen = 0]

\* placeBid is called: withAuctionLock chains the caller behind the current tail
BidCall(c, a, userId, amount, rawKey) ==
  /\ calls[c].pc = "unused"
  /\ \A d \in CallIds : d < c => calls[d].pc # "unused"
  /\ calls' = [calls EXCEPT ![c] =
                 [UnusedCall EXCEPT !.pc = "waitLock", !.auctionId = a,
                                    !.userId = userId, !.amount = amount,
                                    !.key = rawKey, !.epoch = epoch,
                                    !.ahead = lockQ[a]]]
  /\ lockQ' = Enqueued(a, c)
  /\ UNCHANGED <<auctions, orphanTimers, start, exp, redisVars, dbVars, envVars>>
  /\ UNCHANGED <<room, auxVars>>

\* finalize (lines 264-274): without a key the result is returned; with one,
\* storeBidIdempotencyResult (SET result EX 600, DEL pending) is sent first
Finalize(c, rec, result) ==
  IF NormalizeKey(rec.key) = NoKey
  THEN /\ calls' = [calls EXCEPT ![c] = Done(rec, result)]
       /\ lockQ' = Released(rec.auctionId)
       /\ UNCHANGED <<idemPending, idemResult, faults>>
  ELSE \E ok \in Outcomes :
         /\ faults' = Charge(ok)
         /\ IF ok
            THEN /\ idemResult' = [idemResult EXCEPT ![Scope(rec)] = Some(result)]
                 /\ idemPending' = idemPending \ {Scope(rec)}
                 /\ calls' = [calls EXCEPT ![c] =
                                [rec EXCEPT !.pc = "stored", !.result = result]]
                 /\ UNCHANGED lockQ
            ELSE /\ calls' = [calls EXCEPT ![c] = Threw(rec)]
                 /\ lockQ' = Released(rec.auctionId)
                 /\ UNCHANGED <<idemPending, idemResult>>

\* a comparison that lets an equal amount through
BidTooLowStrict(amount, highestBid) == amount < highestBid

\* lines 276-281: amount <= currentItem.highestBid
BidTooLow(amount, highestBid) == amount <= highestBid

\* lines 276-289: the amount is compared with the snapshot's highestBid, then
\* atomicBidCheck is sent
ToArbiter(c, rec) ==
  IF BidTooLow(rec.amount, rec.seen)
  THEN /\ Finalize(c, rec, Rejected(TooLow, rec.seen))
       /\ UNCHANGED <<redisBid, redisBidder>>
  ELSE \E ok \in Outcomes :
         /\ faults' = Charge(ok)
         /\ UNCHANGED <<idemPending, idemResult>>
         /\ IF ok
            THEN LET item == ItemId(rec.auctionId, rec.itemIndex)
                     r == AtomicBidCheck(redisBid[item], redisBidder[item],
                                         rec.amount, rec.userId)
                 IN /\ redisBid' = [redisBid EXCEPT ![item] = r.bid]
                    /\ redisBidder' = [redisBidder EXCEPT ![item] = r.bidder]
                    /\ calls' = [calls EXCEPT ![c] =
                                   [rec EXCEPT !.pc = "checked", !.flag = r.accepted]]
                    /\ UNCHANGED lockQ
            ELSE /\ calls' = [calls EXCEPT ![c] = Threw(rec)]
                 /\ lockQ' = Released(rec.auctionId)
                 /\ UNCHANGED <<redisBid, redisBidder>>

\* lines 218-243: the lock is acquired; registry and engine state are checked;
\* with a key, getBidIdempotencyResult is sent
BidEnter(c) ==
  LET rec == calls[c]
      a == rec.auctionId
  IN
  /\ rec.pc = "waitLock"
  /\ Holds(a, c)
  /\ IF a \notin DOMAIN auctions
     THEN /\ calls' = [calls EXCEPT ![c] = Done(rec, Rejected("Auction not found", 0))]
          /\ lockQ' = Released(a)
          /\ UNCHANGED <<redisVars, faults>>
     ELSE LET state == auctions[a].engine IN
          IF state.status # "LIVE"
          THEN /\ calls' = [calls EXCEPT ![c] =
                              Done(rec, Rejected(NotLiveReason(state.status), 0))]
               /\ lockQ' = Released(a)
               /\ UNCHANGED <<redisVars, faults>>
          ELSE IF ~CurrentItemLive(state)
          THEN /\ calls' = [calls EXCEPT ![c] =
                              Done(rec, Rejected("No item currently being auctioned", 0))]
               /\ lockQ' = Released(a)
               /\ UNCHANGED <<redisVars, faults>>
          ELSE LET rec2 == [rec EXCEPT !.itemIndex = state.currentItemIndex,
                                       !.seen = CurrentItem(state).highestBid]
               IN IF NormalizeKey(rec.key) = NoKey
                  THEN ToArbiter(c, rec2)
                  ELSE /\ \E ok \in Outcomes :
                            /\ faults' = Charge(ok)
                            /\ IF ok
                               THEN /\ calls' = [calls EXCEPT ![c] =
                                         [rec2 EXCEPT !.pc = "gotExisting",
                                                      !.flag = IsSome(GetBidIdempotencyResult(Scope(rec2))),
                                                      !.result =
                                                        IF IsSome(GetBidIdempotencyResult(Scope(rec2)))
                                                        THEN Val(GetBidIdempotencyResult(Scope(rec2)))
                                                        ELSE NoResult]]
                                    /\ UNCHANGED lockQ
                               ELSE /\ calls' = [calls EXCEPT ![c] = Threw(rec2)]
                                    /\ lockQ' = Released(a)
                       /\ UNCHANGED redisVars
  /\ UNCHANGED <<auctions, orphanTimers, start, exp, dbVars, epoch, ttlExpired, now, budget>>
  /\ UNCHANGED <<room, auxVars>>

\* lines 243-250: a stored outcome is returned as it is; otherwise
\* claimBidIdempotency (SET pending EX 30 NX) is sent
BidAfterGet(c) ==
  LET rec == calls[c] IN
  /\ rec.pc = "gotExisting"
  /\ SeedReplied(rec.auctionId)
  /\ IF rec.flag
     THEN /\ calls' = [calls EXCEPT ![c] = Done(rec, rec.result)]
          /\ lockQ' = Released(rec.auctionId)
          /\ UNCHANGED <<idemPending, faults>>
     ELSE \E ok \in Outcomes :
            /\ faults' = Charge(ok)
            /\ IF ok
               THEN /\ calls' = [calls EXCEPT ![c] =
                                   [rec EXCEPT !.pc = "claimed",
                                               !.flag = ClaimBidIdempotency(Scope(rec))]]
                    /\ idemPending' = idemPending \cup {Scope(rec)}
                    /\ UNCHANGED lockQ
               ELSE /\ calls' = [calls EXCEPT ![c] = Threw(rec)]
                    /\ lockQ' = Released(rec.auctionId)
                    /\ UNCHANGED idemPending
  /\ UNCHANGED <<auctions, orphanTimers, start, exp, redisBid, redisBidder, idemResult,
                 dbVars, epoch, ttlExpired, now, budget>>
  /\ UNCHANGED <<room, auxVars>>

\* lines 251-289: the claim's owner goes on to the arbiter; anyone else polls
BidAfterClaim(c) ==
  LET rec == calls[c] IN
  /\ rec.pc = "claimed"
  /\ SeedReplied(rec.auctionId)
  /\ IF rec.flag
     THEN ToArbiter(c, [rec EXCEPT !.flag = FALSE])
     ELSE /\ calls' = [calls EXCEPT ![c] = [rec EXCEPT !.pc = "poll", !.attempts = 0]]
          /\ UNCHANGED <<lockQ, redisVars, faults>>
  /\ UNCHANGED <<auctions, orphanTimers, start, exp, dbVars, epoch, ttlExpired, now, budget>>
  /\ UNCHANGED <<room, auxVars>>

\* waitForBidIdempotencyResult: one round of the loop (get, then 25 ms), or
\* its end after maxAttempts rounds
BidPoll(c) ==
  LET rec == calls[c] IN
  /\ rec.pc = "poll"
  /\ SeedReplied(rec.auctionId)
  /\ IF rec.attempts >= maxAttempts
     THEN /\ calls' = [calls EXCEPT ![c] =
                         Done(rec, Rejected("Duplicate bid in progress", 0))]
          /\ lockQ' = Released(rec.auctionId)
     ELSE IF IsSome(GetBidIdempotencyResult(Scope(rec)))
     THEN /\ calls' = [calls EXCEPT ![c] =
                         Done(rec, Val(GetBidIdempotencyResult(Scope(rec))))]
          /\ lockQ' = Released(rec.auctionId)
     ELSE /\ calls' = [calls EXCEPT ![c].attempts = @ + 1]
          /\ UNCHANGED lockQ
  /\ UNCHANGED <<auctions, orphanTimers, start, exp, redisVars, dbVars, envVars>>
  /\ UNCHANGED <<room, auxVars>>

\* persistBid: one transaction, a Bid row and the item's highest bid
BidRow(rec) ==
  [itemId |-> ItemId(rec.auctionId, rec.itemIndex), bidderId |-> rec.userId,
   amount |-> rec.amount]

\* lines 290-305: a rejected check is finalized; an accepted one updates the
\* engine (result ignored) and persistBid is sent, its error logged
BidAfterCheck(c) ==
  LET rec == calls[c]
      a == rec.auctionId
  IN
  /\ rec.pc = "checked"
  /\ SeedReplied(a)
  /\ IF ~rec.flag
     THEN /\ Finalize(c, rec, Rejected(Outpaced, 0))
          /\ UNCHANGED <<auctions, dbItem, dbBids>>
     ELSE /\ auctions' = [auctions EXCEPT ![a].engine =
                            EnginePlaceBid(@, rec.userId, rec.amount).state]
          /\ \E ok \in Outcomes :
               /\ faults' = Charge(ok)
               /\ calls' = [calls EXCEPT ![c] =
                              [rec EXCEPT !.pc = "persisted", !.flag = FALSE, !.wrote = ok]]
               /\ IF ok
                  THEN /\ dbBids' = Append(dbBids, BidRow(rec))
                       /\ dbItem' = [dbItem EXCEPT
                                       ![ItemId(a, rec.itemIndex)].highestBid = rec.amount,
                                       ![ItemId(a, rec.itemIndex)].highestBidderId = rec.userId]
                  ELSE UNCHANGED <<dbItem, dbBids>>
          /\ UNCHANGED <<lockQ, idemPending, idemResult>>
  /\ UNCHANGED <<orphanTimers, start, exp, redisBid, redisBidder,
                 dbAuction, dbResult, epoch, ttlExpired, now, budget>>
  /\ UNCHANGED <<room, auxVars>>

\* lines 307-308: emitState, finalize({accepted: true})
BidAfterPersist(c) ==
  LET rec == calls[c] IN
  /\ rec.pc = "persisted"
  /\ Finalize(c, rec, Accepted)
  /\ UNCHANGED <<auctions, orphanTimers, start, exp, redisBid, redisBidder,
                 dbVars, epoch, ttlExpired, now, budget>>
  /\ room' = Sent(calls[c].auctionId, EmitState(calls[c].auctionId, auctions))
  /\ UNCHANGED auxVars

\* finalize returns after the store; the lock is released
BidAfterStore(c) ==
  LET rec == calls[c] IN
  /\ rec.pc = "stored"
  /\ SeedReplied(rec.auctionId)
  /\ calls' = [calls EXCEPT ![c] = Done(rec, rec.result)]
  /\ lockQ' = Released(rec.auctionId)
  /\ UNCHANGED <<auctions, orphanTimers, start, exp, redisVars, dbVars, envVars>>
  /\ UNCHANGED <<room, auxVars>>


\* ------------------------------------------------------------- Redis key expiry
\* SET ... EX 30 NX (pending) and SET ... EX 600 (result): the key disappears
ExpirePending(sc) ==
  /\ sc \in idemPending
  /\ idemPending' = idemPending \ {sc}
  /\ ttlExpired' = ttlExpired \cup {sc}
  /\ UNCHANGED <<memVars, redisBid, redisBidder, idemResult, dbVars, epoch, faults, now, budget>>
  /\ UNCHANGED <<room, auxVars>>

ExpireResult(sc) ==
  /\ IsSome(idemResult[sc])
  /\ idemResult' = [idemResult EXCEPT ![sc] = None]
  /\ ttlExpired' = ttlExpired \cup {sc}
  /\ UNCHANGED <<memVars, redisBid, redisBidder, idemPending, dbVars, epoch, faults, now, budget>>
  /\ UNCHANGED <<room, auxVars>>

\* ------------------------------------------------------------- restart
\* the process dies (memory, timers and promises are gone; Redis and the
\* database stay) and onModuleInit re-hydrates from loadActiveAuctions

\* lines 77-93: seedItem(highestBid), then atomicBidCheck(highestBid, bidder)
RecoveredArbiter(item) ==
  LET seeded == [bid |-> Some(item.highestBid), bidder |-> NULL] IN
  IF item.highestBidderId # NULL
  THEN LET r == AtomicBidCheck(seeded.bid, seeded.bidder,
                               item.highestBid, item.highestBidderId)
       IN [bid |-> r.bid, bidder |-> r.bidder]
  ELSE seeded

RecoversLive(a) ==
  /\ dbAuction[a].status = "LIVE"
  /\ CurrentItemLive(ToEngineState(a))

Restart ==
  /\ epoch < budget.restarts
  /\ epoch' = epoch + 1
  /\ auctions' = [a \in {x \in DOMAIN dbAuction : dbAuction[x].status # "ENDED"} |->
                    IF RecoversLive(a)
                    THEN ScheduleItemExpiry(NewEntry(ToEngineState(a)), now)
                    ELSE NewEntry(ToEngineState(a))]
  /\ redisBid' = [i \in DOMAIN redisBid |->
                    IF RecoversLive(i[1]) /\ i[2] = dbAuction[i[1]].currentItemIndex
                    THEN RecoveredArbiter(CurrentItem(ToEngineState(i[1]))).bid
                    ELSE redisBid[i]]
  /\ redisBidder' = [i \in DOMAIN redisBidder |->
                       IF RecoversLive(i[1]) /\ i[2] = dbAuction[i[1]].currentItemIndex
                       THEN RecoveredArbiter(CurrentItem(ToEngineState(i[1]))).bidder
                       ELSE redisBidder[i]]
  /\ calls' = [c \in CallIds |->
                 IF calls[c].pc \in {"unused", "done", "threw", "lost"}
                 THEN calls[c]
                 ELSE [calls[c] EXCEPT !.pc = "lost", !.result = NoResult,
                                       !.flag = FALSE, !.attempts = 0, !.seen = 0]]
  /\ lockQ' = [a \in DOMAIN lockQ |-> <<>>]
  /\ start' = [a \in DOMAIN start |-> "idle"]
  /\ exp' = [a \in DOMAIN exp |-> IdleExp]
  /\ orphanTimers' = [a \in DOMAIN orphanTimers |-> 0]
  /\ UNCHANGED <<idemPending, idemResult, dbVars, faults, ttlExpired, now, budget>>
  /\ UNCHANGED <<room, auxVars>>

\* ------------------------------------------------------------- the engine on its own
\* the object the caller holds follows this.state in the parts it shares with it
Synced(held, s) ==
  IF ~IsSome(held) THEN held
  ELSE LET h == Val(held) IN
       Some([h EXCEPT !.value =
               IF "state" \in h.shared THEN s
               ELSE IF "items" \in h.shared THEN [h.value EXCEPT !.items = s.items]
               ELSE h.value])

\* the engine's methods, called directly as the unit tests do
EngineCalls(s) ==
  {EngineStartAuction(s).state, EngineEndCurrentItem(s).state,
   EngineAdvanceToNextItem(s).state, EngineExtendCurrentItem(s).state,
   EngineEndAuction(s).state}
    \cup {EnginePlaceBid(s, u, n).state : u \in Users, n \in Amounts \cup {Infinity}}

ProbeCall ==
  /\ \E s \in EngineCalls(probe.engine) :
       /\ s # probe.engine
       /\ probe' = [probe EXCEPT !.engine = s, !.a = Synced(probe.a, s)]
  /\ UNCHANGED <<memVars, redisVars, dbVars, envVars, room, extRefused>>

\* the engine under test is one built with no items
ProbeNew ==
  /\ probe = NewProbe
  /\ probe' = [probe EXCEPT !.engine = EmptyEngine("a1")]
  /\ UNCHANGED <<memVars, redisVars, dbVars, envVars, room, extRefused>>

\* const a = engine.getState()
ProbeGetState ==
  /\ probe.a = None
  /\ probe' = [probe EXCEPT !.a = Some(EngineGetState(probe.engine))]
  /\ UNCHANGED <<memVars, redisVars, dbVars, envVars, room, extRefused>>

\* engine2.setState(a)
ProbeSetState ==
  /\ IsSome(probe.a) /\ probe.engine2 = None
  /\ LET r == EngineSetState(Val(probe.a).value) IN
       probe' = [probe EXCEPT !.engine2 = Some(r.state), !.given = r.shared]
  /\ UNCHANGED <<memVars, redisVars, dbVars, envVars, room, extRefused>>

\* the caller writes into the object it holds; what shares the written part
\* changes with it
ProbeScribble(part) ==
  /\ IsSome(probe.a)
  /\ Scribbled(Val(probe.a).value, part) # Val(probe.a).value
  /\ probe' = [probe EXCEPT
                 !.a = Some([Val(probe.a) EXCEPT !.value = Scribbled(@, part)]),
                 !.engine = IF part \in Val(probe.a).shared
                            THEN Scribbled(@, part) ELSE @,
                 !.engine2 = IF IsSome(@) /\ part \in probe.given
                             THEN Some(Scribbled(Val(@), part)) ELSE @]
  /\ UNCHANGED <<memVars, redisVars, dbVars, envVars, room, extRefused>>

\* ------------------------------------------------------------- specifications
\* what every specification has: start, timers, expiry, and the bid path
\* without the idempotency protocol
Handlers ==
  \/ \E a \in AuctionIds : StartAuction(a)
  \/ \E a \in AuctionIds : StartPersistStatus(a)
  \/ \E a \in AuctionIds : StartPersistItem(a)
  \/ \E a \in AuctionIds : StartFinish(a)
  \/ \E a \in AuctionIds : ExpEnter(a)
  \/ \E a \in AuctionIds : ExpClearItem(a)
  \/ \E a \in AuctionIds : ExpAdvance(a)
  \/ \E a \in AuctionIds : ExpClearAuction(a)
  \/ \E a \in AuctionIds : ExpEndFinish(a)
  \/ \E a \in AuctionIds : ExpPersistNext(a)
  \/ \E a \in AuctionIds : ExpPersistIndex(a)
  \/ \E a \in AuctionIds : ExpFinish(a)
  \/ \E c \in CallIds : BidEnter(c)
  \/ \E c \in CallIds : BidAfterCheck(c)
  \/ \E c \in CallIds : BidAfterPersist(c)

\* with timers that fire whenever they are armed (the clock is not followed)
Core ==
  \/ Handlers
  \/ \E a \in AuctionIds : TimerFire(a)

\* the idempotency protocol and the expiry of its keys
Idem ==
  \/ \E c \in CallIds : BidAfterGet(c)
  \/ \E c \in CallIds : BidAfterClaim(c)
  \/ \E c \in CallIds : BidPoll(c)
  \/ \E c \in CallIds : BidAfterStore(c)
  \/ \E sc \in IdemScopes : ExpirePending(sc)
  \/ \E sc \in IdemScopes : ExpireResult(sc)

\* bids that carry no idempotency key
PlainBids ==
  \E c \in CallIds, a \in AuctionIds, u \in Users, amount \in Amounts :
    BidCall(c, a, u, amount, NoKey)

\* Spec: bids without keys, with failing calls and a restart
Next ==
  \/ Core
  \/ PlainBids
  \/ Restart

Spec == Init /\ [][Next]_vars

\* SpecBids: concurrent bids on a server whose calls all succeed
NextBids ==
  \/ Core
  \/ PlainBids

SpecBids == InitReliable /\ [][NextBids]_vars

\* SpecSerial: the same with extendItem
NextSerial ==
  \/ Core
  \/ PlainBids
  \/ \E a \in AuctionIds, sellerId \in Sellers : ExtendItem(a, sellerId)

SpecSerial == InitReliable /\ [][NextSerial]_vars

\* SpecIdem: bids with and without idempotency keys, key expiry and failing calls
KeyedBids ==
  \E c \in CallIds, a \in AuctionIds, u \in Users, amount \in Amounts, k \in RawKeys :
    BidCall(c, a, u, amount, k)

NextIdem ==
  \/ Core
  \/ Idem
  \/ KeyedBids

SpecIdem == Init /\ [][NextIdem]_vars

\* SpecTimer: the clock is followed; extendItem, bids, no failing call
TimedBids ==
  \E c \in CallIds, a \in AuctionIds : BidCall(c, a, "u1", MaxAmount, NoKey)

NextTimer ==
  \/ Handlers
  \/ TimedBids
  \/ \E a \in AuctionIds, sellerId \in Sellers : ExtendItem(a, sellerId)
  \/ \E a \in AuctionIds : TimerDue(a)
  \/ Tick

SpecTimer == InitReliable /\ [][NextTimer]_vars

\* SpecCrash: as Spec, every call succeeds and the process restarts at any point
InitCrash == Created([faults |-> 0, restarts |-> MaxCrashes])
SpecCrash == InitCrash /\ [][Next]_vars

\* SpecOutage: as Spec, with an outage that makes one more call fail
InitOutage == Created([faults |-> MaxFaults + 1, restarts |-> MaxCrashes])
SpecOutage == InitOutage /\ [][Next]_vars


\* SpecSeller: no call fails, one bidder, and extendItem called by the seller
\* and by someone else at any point
NextSeller ==
  \/ Core
  \/ TimedBids
  \/ \E a \in AuctionIds, sellerId \in Sellers : ExtendItem(a, sellerId)
  \/ \E a \in AuctionIds, sellerId \in Sellers : ExtendItemRefused(a, sellerId)
SpecSeller == InitReliable /\ [][NextSeller]_vars

\* SpecSellerCrash: as SpecSeller with a single bid, failing calls and restarts
OneBid == \E a \in AuctionIds : BidCall(1, a, "u1", MaxAmount, NoKey)
NextSellerCrash ==
  \/ Core
  \/ OneBid
  \/ Restart
  \/ \E a \in AuctionIds, sellerId \in Sellers : ExtendItem(a, sellerId)
  \/ \E a \in AuctionIds, sellerId \in Sellers : ExtendItemRefused(a, sellerId)
SpecSellerCrash == Init /\ [][NextSellerCrash]_vars

\* SpecFair: as SpecSellerCrash without the seller, and every handler that can
\* go on and every armed timer eventually runs (the event loop starves nothing);
\* failures and restarts may or may not happen
NextFair ==
  \/ Core
  \/ OneBid
  \/ Restart
SpecFair == Init /\ [][NextFair]_vars /\ WF_vars(Core)

\* SpecKeys: as SpecIdem when no call to Redis or the database fails; the
\* process may still be restarted
NextKeys ==
  \/ NextIdem
  \/ Restart

SpecKeys == InitCrash /\ [][NextKeys]_vars

\* SpecEngine: one AuctionEngine called directly, snapshots taken and written to
NextEngine ==
  \/ ProbeCall
  \/ ProbeGetState
  \/ ProbeSetState
  \/ \E part \in Scribbles : ProbeScribble(part)
SpecEngine == InitReliable /\ [][NextEngine]_vars

\* SpecLife: no call fails, no restart; one bid and the seller's extendItem at
\* any moment; every handler that can go on and every armed timer eventually
\* runs
NextLife ==
  \/ Core
  \/ OneBid
  \/ \E a \in AuctionIds : ExtendItem(a, SellerOf(a))

SpecLife == InitReliable /\ [][NextLife]_vars /\ WF_vars(Core)

\* SpecTwo: two auctions side by side, no failing call and no restart: the
\* seller extends in a1, u2 bids in a2, both are started and run by their timers
TwoAuctions == {"a1", "a2"}
InitTwo == CreatedOn(TwoAuctions, [faults |-> 0, restarts |-> 0])

NextTwo ==
  \/ \E a \in TwoAuctions : StartAuction(a)
  \/ \E a \in TwoAuctions : StartPersistStatus(a)
  \/ \E a \in TwoAuctions : StartPersistItem(a)
  \/ \E a \in TwoAuctions : StartFinish(a)
  \/ \E a \in TwoAuctions : TimerFire(a)
  \/ \E a \in TwoAuctions : ExpEnter(a)
  \/ \E a \in TwoAuctions : ExpClearItem(a)
  \/ \E a \in TwoAuctions : ExpAdvance(a)
  \/ \E a \in TwoAuctions : ExpClearAuction(a)
  \/ \E a \in TwoAuctions : ExpEndFinish(a)
  \/ \E a \in TwoAuctions : ExpPersistNext(a)
  \/ \E a \in TwoAuctions : ExpPersistIndex(a)
  \/ \E a \in TwoAuctions : ExpFinish(a)
  \/ ExtendItem("a1", SellerOf("a1"))
  \/ BidCall(1, "a2", "u2", MaxAmount, NoKey)
  \/ \E c \in CallIds : BidEnter(c)
  \/ \E c \in CallIds : BidAfterCheck(c)
  \/ \E c \in CallIds : BidAfterPersist(c)

SpecTwo == InitTwo /\ [][NextTwo]_vars

\* SpecStart: one AuctionEngine, built with two items or with none, called directly
NextStart ==
  \/ ProbeNew
  \/ ProbeCall

SpecStart == InitReliable /\ [][NextStart]_vars

\* ------------------------------------------------------------- properties
\* the Bid rows of one item, in persistence order
BidsOf(item) == SelectSeq(dbBids, LAMBDA row : row.itemId = item)

\* C1: for every item, the Bid rows persisted for it carry strictly increasing
\* amounts in persistence order, in every reachable state (concurrent bids,
\* timer expiries, swallowed persistBid failures and restart recovery included)
C1_BidsStrictlyIncreasing ==
  \A item \in ItemIds :
    \A m, n \in 1..Len(BidsOf(item)) :
      m < n => BidsOf(item)[m].amount < BidsOf(item)[n].amount

\* a call that returned after it was judged against item i of auction a
Judged(c, a, i) ==
  /\ calls[c].pc = "done"
  /\ calls[c].auctionId = a
  /\ calls[c].itemIndex = i
  /\ calls[c].result.accepted \/ calls[c].result.reason \in {TooLow, Outpaced}
Rows(a, i, amount) ==
  Len(SelectSeq(BidsOf(ItemId(a, i)), LAMBDA row : row.amount = amount))
Lowest(S) == CHOOSE c \in S : \A d \in S : c <= d

\* C2: when two or more calls of distinct users carry the same amount, above
\* the item's highest bid when the first of them is served, exactly one of them
\* (the first to reach the arbiter) is accepted, every other one is rejected,
\* exactly one Bid row is written, and the item's highest bid is that amount
\* unless a higher bid was submitted too
C2_OneWinnerAmongEqualBids ==
  \A a \in AuctionIds, i \in ItemIndexes, amount \in Amounts :
    LET S == {c \in CallIds : Judged(c, a, i) /\ calls[c].amount = amount} IN
    ( /\ Cardinality(S) >= 2
      /\ \A c, d \in S : c # d => calls[c].userId # calls[d].userId
      /\ calls[Lowest(S)].result.reason # TooLow )
    => /\ calls[Lowest(S)].result.accepted
       /\ \A c \in S \ {Lowest(S)} : ~calls[c].result.accepted
       /\ Rows(a, i, amount) = 1
       /\ GetState(a).items[i + 1].highestBid >= amount
       /\ (\A c \in CallIds : calls[c].amount <= amount)
            => GetState(a).items[i + 1].highestBid = amount

\* two users bid 2 on item 0, the second while the first was still queued or
\* running: the first was accepted and the second rejected
C2_Witness ==
  \E c, d \in CallIds :
    /\ c < d
    /\ Judged(c, "a1", 0) /\ Judged(d, "a1", 0)
    /\ calls[c].amount = calls[d].amount
    /\ calls[c].userId # calls[d].userId
    /\ \E k \in 1..Len(calls[d].ahead) : calls[d].ahead[k] = c
    /\ calls[c].result.accepted
    /\ ~calls[d].result.accepted

\* no placeBid call is between its arrival and its return
NoBidInFlight == \A c \in CallIds : calls[c].pc \in {"unused", "done", "threw", "lost"}
MaxOf(S) == CHOOSE x \in S : \A y \in S : y <= x

\* C3: once concurrent calls of distinct users with pairwise distinct amounts
\* (all above the starting price) have returned for one item, the item's
\* highest bid is the largest amount submitted, its highest bidder is the user
\* who submitted it, the highest bid is the largest accepted amount, and the
\* item has as many Bid rows as calls were accepted
C3_HighestBidIsMaxSubmitted ==
  \A a \in AuctionIds, i \in ItemIndexes :
    LET S == {c \in CallIds : Judged(c, a, i)}
        accepted == {c \in S : calls[c].result.accepted}
        item == GetState(a).items[i + 1]
    IN ( /\ S # {}
         /\ NoBidInFlight
         /\ \A c \in S : calls[c].amount > item.startingPrice
         /\ \A c, d \in S : c # d => /\ calls[c].amount # calls[d].amount
                                     /\ calls[c].userId # calls[d].userId )
       => /\ item.highestBid = MaxOf({calls[c].amount : c \in S})
          /\ \E c \in S : /\ calls[c].amount = item.highestBid
                          /\ calls[c].userId = item.highestBidderId
          /\ accepted # {}
          /\ item.highestBid = MaxOf({calls[c].amount : c \in accepted})
          /\ Len(BidsOf(ItemId(a, i))) = Cardinality(accepted)

\* u1 bids 3 and u2, arriving while that call is queued or running, bids 2 on
\* item 0; both have returned: the first accepted, the second refused
C3_Witness ==
  \E c, d \in CallIds :
    /\ Judged(c, "a1", 0) /\ Judged(d, "a1", 0)
    /\ NoBidInFlight
    /\ calls[c].userId # calls[d].userId
    /\ calls[c].amount > calls[d].amount
    /\ \E k \in 1..Len(calls[d].ahead) : calls[d].ahead[k] = c
    /\ calls[c].result.accepted
    /\ ~calls[d].result.accepted
    /\ Len(BidsOf(ItemId("a1", 0))) = 1

\* a call that returned a result other than the engine's refusal to look at it
\* (no such auction, auction not LIVE, no LIVE item)
Admitted(c) ==
  /\ calls[c].pc = "done"
  /\ calls[c].result.reason \notin
       {"Auction not found", NotLiveReason("CREATED"), NotLiveReason("ENDED"),
        "No item currently being auctioned"}
SameBid(c, d) ==
  /\ c # d
  /\ calls[c].pc = "done" /\ calls[d].pc = "done"
  /\ calls[c].auctionId = calls[d].auctionId
  /\ calls[c].userId = calls[d].userId
  /\ calls[c].amount = calls[d].amount
  /\ calls[c].key = calls[d].key

\* C4 as stated: calls of one user on one auction with the same amount and the
\* same non-empty idempotency key all return the identical result, and at most
\* one of them writes a Bid row
C4_SameKeySameResult ==
  \A c, d \in CallIds :
    (SameBid(c, d) /\ calls[c].key # "")
    => /\ calls[c].result = calls[d].result
       /\ ~(calls[c].wrote /\ calls[d].wrote)

\* C4, amended: the same holds when the key is non-empty after trimming, every
\* one of the calls was served while the same item was the auction's LIVE item,
\* and no idempotency entry of that key has expired
C4_SameKeySameResultInScope ==
  \A c, d \in CallIds :
    ( /\ SameBid(c, d)
      /\ calls[c].key \notin {"", " "}
      /\ Admitted(c) /\ Admitted(d)
      /\ calls[c].itemIndex = calls[d].itemIndex
      /\ Scope(calls[c]) \notin ttlExpired )
    => /\ calls[c].result = calls[d].result
       /\ ~(calls[c].wrote /\ calls[d].wrote)

\* u1 bids 2 with key k1 twice on item 0, the second call arriving while the
\* first is queued or running: the first is accepted and writes the Bid row,
\* the second returns the stored outcome
C4_Witness ==
  \E c, d \in CallIds :
    /\ c < d
    /\ SameBid(c, d)
    /\ calls[c].key = "k1"
    /\ Admitted(c) /\ Admitted(d)
    /\ calls[c].itemIndex = calls[d].itemIndex
    /\ Scope(calls[c]) \notin ttlExpired
    /\ \E k \in 1..Len(calls[d].ahead) : calls[d].ahead[k] = c
    /\ calls[c].result.accepted /\ calls[d].result.accepted
    /\ calls[c].wrote /\ ~calls[d].wrote

\* how many mutations of auction a have taken their first step and not yet
\* their last: startAuction, the expiry handler, and the placeBid calls
InProgress(a) ==
  (IF start[a] # "idle" THEN 1 ELSE 0)
  + (IF exp[a].pc # "idle" THEN 1 ELSE 0)
  + Cardinality({c \in CallIds :
                   /\ calls[c].auctionId = a
                   /\ calls[c].pc \in {"gotExisting", "claimed", "poll", "checked",
                                       "persisted", "stored"}})

\* C5: the mutations of one auction (startAuction, placeBid, extendItem, the
\* timer-expiry handler) run strictly one after another: in no state are two
\* of them both between their first and their last step
C5_MutationsSerial ==
  \A a \in AuctionIds : InProgress(a) <= 1

\* the indexes (from 0) of the items of a state that are LIVE
LiveItems(s) == {i \in ItemIndexes : s.items[i + 1].status = "LIVE"}

\* C6: in every observable state (no mutation of the auction is between its
\* first and its last step) in which getState reports the auction LIVE, exactly
\* one item is LIVE and it is the item at currentItemIndex
C6_OneLiveItemAtCurrentIndex ==
  \A a \in AuctionIds :
    (InProgress(a) = 0 /\ GetState(a).status = "LIVE")
    => LiveItems(GetState(a)) = {GetState(a).currentItemIndex}

\* C7: in every state in which getState reports the auction LIVE,
\* currentItemIndex is within [0, itemCount), every item below it is SOLD or
\* UNSOLD and every item above it is PENDING
C7_ItemsOrderedAroundCurrentIndex ==
  \A a \in AuctionIds :
    LET s == GetState(a) IN
    s.status = "LIVE"
    => /\ s.currentItemIndex \in 0..(Len(s.items) - 1)
       /\ \A i \in ItemIndexes :
            /\ i < s.currentItemIndex => s.items[i + 1].status \in {"SOLD", "UNSOLD"}
            /\ i > s.currentItemIndex => s.items[i + 1].status = "PENDING"

Rank(status) == IF status = "CREATED" THEN 0 ELSE IF status = "LIVE" THEN 1 ELSE 2

\* C8: an auction's status only moves forward along CREATED -> LIVE -> ENDED:
\* no step takes the status getState reports from LIVE back to CREATED, or
\* from ENDED back to LIVE or CREATED
C8_StatusMonotonic ==
  [][\A a \in AuctionIds : Rank(GetState(a).status') >= Rank(GetState(a).status)]_vars

Closed == {"SOLD", "UNSOLD"}

\* C9: in the log every SOLD item has its ItemResult row (itemId is unique, so
\* exactly one) and every UNSOLD item has none; and where the log and the
\* engine have both closed an item, they agree on SOLD or UNSOLD
C9_LogResultsMatchSoldItems ==
  \A a \in AuctionIds, i \in ItemIndexes :
    LET row == dbItem[ItemId(a, i)] IN
    /\ row.status = "SOLD" => IsSome(dbResult[ItemId(a, i)])
    /\ row.status = "UNSOLD" => ~IsSome(dbResult[ItemId(a, i)])
    /\ ( /\ a \in DOMAIN auctions
         /\ row.status \in Closed
         /\ auctions[a].engine.items[i + 1].status \in Closed )
       => row.status = auctions[a].engine.items[i + 1].status

\* call c has returned accepted:true
ReturnedAccepted(c) == calls[c].pc = "done" /\ calls[c].result.accepted
\* the arbiter's highest_bid for the item of call c is at least the call's amount
ArbiterKeeps(c) ==
  LET item == ItemId(calls[c].auctionId, calls[c].itemIndex) IN
  IsSome(redisBid[item]) /\ Val(redisBid[item]) >= calls[c].amount
\* the item of call c is LIVE in what getState reports
ItemOfCallLive(c) ==
  GetState(calls[c].auctionId).items[calls[c].itemIndex + 1].status = "LIVE"

\* C10: when a placeBid returns accepted:true with amount a, the arbiter's
\* highest_bid for the item is at least a right after the bid, and no later
\* step that leaves the item LIVE takes it below a
C10_ArbiterKeepsAcceptedBid ==
  [][\A c \in CallIds :
       /\ (~ReturnedAccepted(c) /\ ReturnedAccepted(c)') => ArbiterKeeps(c)'
       /\ ( /\ ReturnedAccepted(c) /\ ReturnedAccepted(c)'
            /\ ItemOfCallLive(c) /\ ItemOfCallLive(c)'
            /\ ArbiterKeeps(c) )
          => ArbiterKeeps(c)']_vars

\* what getState reports of an item's status and highest bid
ItemFacts(s) == [k \in DOMAIN s.items |-> <<s.items[k].status, s.items[k].highestBid>>]

\* the room of auction a has been sent auction_ended
AuctionEndedSent(a) == \E k \in DOMAIN room[a] : room[a][k].event = "auction_ended"

\* C11: once an auction is ENDED, no later step (startAuction, placeBid,
\* extendItem, a late timer callback, the engine's own operations) changes the
\* status or the highestBid of any of its items: not in the engine while the
\* registry holds it ENDED, and not in what getState reports once auction_ended
\* has been sent
C11_EndedItemsFrozen ==
  [][\A a \in AuctionIds :
       /\ ( /\ a \in DOMAIN auctions /\ auctions[a].engine.status = "ENDED"
            /\ a \in DOMAIN auctions' /\ epoch' = epoch )
          => ItemFacts(auctions[a].engine)' = ItemFacts(auctions[a].engine)
       /\ AuctionEndedSent(a)
          => ItemFacts(GetState(a))' = ItemFacts(GetState(a))]_vars

\* a step in which extendItem succeeds on the LIVE item of auction a
Extends(a) ==
  /\ a \in DOMAIN auctions /\ a \in DOMAIN auctions'
  /\ CurrentItemLive(auctions[a].engine)
  /\ auctions[a].engine.currentItemIndex = auctions[a].engine.currentItemIndex'
  /\ ~CurrentItem(auctions[a].engine).extended
  /\ CurrentItem(auctions[a].engine).extended'
\* the entry's timer handle is set and its end time E is not before now
ArmedNotOverdue(a) ==
  /\ auctions[a].itemTimer # "null"
  /\ IsSome(auctions[a].itemEndTimeMs)
  /\ Val(auctions[a].itemEndTimeMs) >= now
ExtraMs == DEFAULT_EXTRA_DURATION_SEC * 1000
FullMs == DEFAULT_ITEM_DURATION_SEC * 1000

\* C12 as stated: when the seller extends a LIVE item whose timer is armed
\* with end time E >= now, the new itemEndTime is E + extraDurationSec*1000,
\* and it is never now + (durationSec + extraDurationSec)*1000
C12_ExtendAddsToEndTimeNeverResets ==
  [][\A a \in AuctionIds :
       (Extends(a) /\ ArmedNotOverdue(a))
       => /\ auctions[a].itemEndTimeMs' = Some(Val(auctions[a].itemEndTimeMs) + ExtraMs)
          /\ auctions[a].itemEndTimeMs' # Some(now + FullMs + ExtraMs)]_vars

\* C12, amended: the new itemEndTime is E + extraDurationSec*1000 whatever
\* time has elapsed; it differs from now + (durationSec + extraDurationSec)*1000
\* whenever the extend comes after the instant the timer was armed
\* (E < now + durationSec*1000)
C12_ExtendAddsToEndTime ==
  [][\A a \in AuctionIds :
       (Extends(a) /\ ArmedNotOverdue(a))
       => /\ auctions[a].itemEndTimeMs' = Some(Val(auctions[a].itemEndTimeMs) + ExtraMs)
          /\ Val(auctions[a].itemEndTimeMs) < now + FullMs
             => auctions[a].itemEndTimeMs' # Some(now + FullMs + ExtraMs)]_vars

\* the first item was armed to end at 60 s, the seller extended it, the room
\* was told 75 s, and the clock is at 45 s
C12_Witness ==
  /\ now = 3 * TickMs
  /\ Len(room["a1"]) = 2
  /\ room["a1"][1].event = "auction_state" /\ room["a1"][1].itemEndTime = Some(FullMs)
  /\ ~room["a1"][1].state.items[1].extended
  /\ room["a1"][2].event = "auction_state"
  /\ room["a1"][2].itemEndTime = Some(FullMs + ExtraMs)
  /\ room["a1"][2].state.items[1].extended
  /\ auctions["a1"].itemEndTimeMs = Some(FullMs + ExtraMs)

\* C13: for every successful extendItem, in any interleaving with startAuction,
\* placeBid and a pending timer expiry, the item's end time after the extend is
\* at least the end time before it and exceeds it by at most
\* extraDurationSec*1000
C13_ExtendMonotoneAndBounded ==
  [][\A a \in AuctionIds :
       (Extends(a) /\ IsSome(auctions[a].itemEndTimeMs) /\ IsSome(auctions[a].itemEndTimeMs'))
       => /\ Val(auctions[a].itemEndTimeMs') >= Val(auctions[a].itemEndTimeMs)
          /\ Val(auctions[a].itemEndTimeMs') - Val(auctions[a].itemEndTimeMs) <= ExtraMs]_vars

\* the log's row of the auction's current item
LogItem(a) == dbItem[ItemId(a, dbAuction[a].currentItemIndex)]
\* the process has restarted, auction a was recovered LIVE with a LIVE current
\* item, and its engine is still what the log says
Recovered(a) ==
  /\ epoch >= 1
  /\ a \in DOMAIN auctions
  /\ RecoversLive(a)
  /\ auctions[a].engine = ToEngineState(a)
\* call c is the first placeBid served since the restart
FirstServed(c) ==
  /\ calls[c].epoch = epoch
  /\ calls[c].pc = "waitLock"
  /\ \A d \in CallIds \ {c} : calls[d].epoch = epoch => calls[d].pc \in {"unused", "waitLock"}

\* C14: after a restart that recovers a LIVE auction whose current item has
\* the persisted highestBid h, a new bid with amount <= h is rejected (bid too
\* low) and a new bid with amount > h is accepted by the arbiter and returns
\* accepted
C14_RecoveredBarIsPersistedBid ==
  [][\A c \in CallIds :
       LET a == calls[c].auctionId
           h == LogItem(a).highestBid
       IN /\ (Recovered(a) /\ FirstServed(c) /\ calls[c].pc' # "waitLock" /\ epoch' = epoch)
             => /\ calls[c].amount <= h
                   => /\ calls[c].pc' = "done"
                      /\ calls[c].result' = Rejected(TooLow, h)
                /\ calls[c].amount > h
                   => calls[c].pc' = "checked" /\ calls[c].flag'
          /\ ( /\ calls[c].epoch >= 1 /\ epoch' = epoch
               /\ calls[c].pc = "persisted" /\ calls[c].pc' # "persisted" )
             => calls[c].pc' = "done" /\ calls[c].result' = Accepted]_vars

\* u1's bid of 2 was accepted and persisted, the process restarted, and the
\* first bid after the restart, u2's 2, was refused against the bar 2
C14_Witness ==
  \E c, d \in CallIds :
    /\ calls[c].epoch = 0 /\ ReturnedAccepted(c) /\ calls[c].wrote
    /\ calls[d].epoch = 1 /\ calls[d].pc = "done"
    /\ calls[d].userId # calls[c].userId
    /\ calls[d].amount = calls[c].amount
    /\ calls[d].result = Rejected(TooLow, calls[c].amount)
    /\ LogItem("a1").highestBid = calls[c].amount

\* C15: after startup recovery of a LIVE auction whose current item has a
\* non-null highestBidderId b and highestBid h, the arbiter holds
\* highest_bid = h and highest_bidder = b for that item
C15_RecoveryRestoresBidder ==
  [][\A a \in AuctionIds :
       (epoch' = epoch + 1 /\ RecoversLive(a) /\ LogItem(a).highestBidderId # NULL)
       => /\ redisBid'[ItemId(a, dbAuction[a].currentItemIndex)] = Some(LogItem(a).highestBid)
          /\ redisBidder'[ItemId(a, dbAuction[a].currentItemIndex)]
               = LogItem(a).highestBidderId]_vars

\* C16: after a crash at any point followed by startup recovery, every auction
\* the log reports as LIVE is in the registry with a LIVE current item, a
\* seeded arbiter and an armed expiry timer (so that it goes on to ENDED)
C16_RecoveryRearmsLiveAuctions ==
  [][\A a \in AuctionIds :
       (epoch' = epoch + 1 /\ dbAuction[a].status = "LIVE")
       => /\ a \in DOMAIN auctions'
          /\ CurrentItemLive(auctions[a].engine')
          /\ auctions[a].itemTimer' = "armed"
          /\ IsSome(redisBid'[ItemId(a, auctions[a].engine.currentItemIndex')])]_vars

\* the bids placeBid returned accepted:true for on item i of auction a
AcceptedOn(a, i) ==
  {c \in CallIds : /\ ReturnedAccepted(c) /\ calls[c].auctionId = a
                   /\ calls[c].itemIndex = i}

\* the bids on item i of a that the arbiter accepted and that reached the
\* bidder (accepted:true) or the log (persistBid wrote them)
KnownAcceptedOn(a, i) ==
  AcceptedOn(a, i) \cup {c \in CallIds : /\ calls[c].wrote /\ calls[c].auctionId = a
                                         /\ calls[c].itemIndex = i}

\* this step sends item_sold (and its auction_state) to the room of a
SendsItemSold(a) ==
  /\ Len(room'[a]) = Len(room[a]) + 2
  /\ room'[a][Len(room[a]) + 1].event = "item_sold"

\* this step closes the LIVE current item of a (endCurrentItem succeeded)
ClosesItem(a) ==
  /\ a \in DOMAIN auctions /\ a \in DOMAIN auctions' /\ epoch' = epoch
  /\ CurrentItemLive(auctions[a].engine)
  /\ auctions'[a].engine.currentItemIndex = auctions[a].engine.currentItemIndex
  /\ ~CurrentItemLive(auctions'[a].engine)

\* C17: an item that closes becomes SOLD iff its highestBidderId is non-null
\* and its highestBid > startingPrice; item_sold for a SOLD item names the
\* bidder and the amount of the highest accepted bid on it, and for any other
\* item it is UNSOLD with winner null and finalPrice = startingPrice
C17_SoldIffHadBidsToLastBidder ==
  [][\A a \in AuctionIds :
       /\ ClosesItem(a)
          => LET before == CurrentItem(auctions[a].engine)
                 after == CurrentItem(auctions'[a].engine)
             IN /\ after.status \in {"SOLD", "UNSOLD"}
                /\ after.status = "SOLD"
                     <=> ( /\ before.highestBidderId # NULL
                           /\ before.highestBid > before.startingPrice )
       /\ SendsItemSold(a)
          => LET e == room'[a][Len(room[a]) + 1]
                 item == room'[a][Len(room[a]) + 2].state.items[e.itemIndex + 1]
                 acc == AcceptedOn(a, e.itemIndex)
             IN IF item.status = "SOLD"
                THEN \E c \in KnownAcceptedOn(a, e.itemIndex) :
                       /\ e.winnerId = calls[c].userId
                       /\ e.finalPrice = calls[c].amount
                       /\ \A d \in acc : calls[d].amount <= calls[c].amount
                ELSE /\ item.status = "UNSOLD"
                     /\ e.winnerId = NULL
                     /\ e.finalPrice = item.startingPrice]_vars

\* the positions in the room of a at which item_sold for item i was sent
ItemSoldAt(a, i) ==
  {k \in 1..Len(room[a]) : room[a][k].event = "item_sold" /\ room[a][k].itemIndex = i}

\* the positions in the room of a at which auction_ended was sent
AuctionEndedAt(a) == {k \in 1..Len(room[a]) : room[a][k].event = "auction_ended"}

\* C18: in the room of each auction item_sold appears at most once per item
\* and is followed by an auction_state, auction_ended appears at most once,
\* after the item_sold of the last item, and no item_sold comes after it
C18_ItemSoldOncePerItemThenEnded ==
  \A a \in AuctionIds :
    /\ \A i \in 0..(NItems - 1) :
         /\ Cardinality(ItemSoldAt(a, i)) <= 1
         /\ \A k \in ItemSoldAt(a, i) :
              k < Len(room[a]) /\ room[a][k + 1].event = "auction_state"
    /\ Cardinality(AuctionEndedAt(a)) <= 1
    /\ \A k \in AuctionEndedAt(a) :
         /\ \E j \in ItemSoldAt(a, NItems - 1) : j < k
         /\ \A i \in 0..(NItems - 1) : \A j \in ItemSoldAt(a, i) : j < k

\* C19: no placeBid call ends in an exception: every call that has ended and
\* was not cut off by a restart has a BidResult, also when an arbiter call
\* (idempotency lookup, claim, atomic check-and-set, outcome store) failed
C19_PlaceBidNeverThrows == \A c \in CallIds : calls[c].pc # "threw"

\* placeBid call c goes on after a persistBid that failed
ResumesAfterFailedPersist(c) ==
  /\ calls[c].pc = "persisted" /\ ~calls[c].wrote
  /\ calls[c].pc' # "persisted" /\ epoch' = epoch

\* C20: when the arbiter accepted a bid and persistBid for it failed, placeBid
\* returns accepted:true, the engine's current item has the bid's amount and
\* bidder as highestBid and highestBidderId, and an auction_state event
\* carrying that highest bid is sent to the room
C20_FailedPersistStillAccepted ==
  [][\A c \in CallIds :
       ResumesAfterFailedPersist(c)
       => LET a == calls[c].auctionId
              k == calls[c].itemIndex + 1
          IN /\ calls[c].pc' \in {"done", "stored"}
             /\ calls[c].result' = Accepted
             /\ a \in DOMAIN auctions'
             /\ auctions'[a].engine.items[k].highestBid = calls[c].amount
             /\ auctions'[a].engine.items[k].highestBidderId = calls[c].userId
             /\ Len(room'[a]) = Len(room[a]) + 1
             /\ LET e == room'[a][Len(room'[a])] IN
                  /\ e.event = "auction_state"
                  /\ e.state.items[k].highestBid = calls[c].amount
                  /\ e.state.items[k].highestBidderId = calls[c].userId]_vars

\* u1's bid of 2 returned accepted:true although persistBid failed: the log
\* has no bid row and still the starting price, the last event in the room is
\* an auction_state with highest bid 2 by u1
C20_Witness ==
  \E c \in CallIds :
    /\ ReturnedAccepted(c) /\ ~calls[c].wrote /\ NormalizeKey(calls[c].key) = NoKey
    /\ calls[c].amount = 2 /\ calls[c].userId = "u1"
    /\ dbBids = << >>
    /\ dbItem[ItemId("a1", calls[c].itemIndex)].highestBid = StartingPriceOf(calls[c].itemIndex)
    /\ Len(room["a1"]) > 0
    /\ LET e == room["a1"][Len(room["a1"])] IN
         /\ e.event = "auction_state"
         /\ e.state.items[calls[c].itemIndex + 1].highestBid = 2
         /\ e.state.items[calls[c].itemIndex + 1].highestBidderId = "u1"

\* C21: restoring a snapshot of the engine's state gives a state equal to it,
\* and writing into an object returned by getState or passed to setState
\* (a nested item included) changes the state of no engine
C21_SnapshotRoundTripAndDeepCopy ==
  [][/\ EngineSetState(EngineGetState(probe.engine).value).state = probe.engine
     /\ \A part \in Scribbles :
          ProbeScribble(part)
          => probe.engine' = probe.engine /\ probe.engine2' = probe.engine2]_vars

\* this step is a call of extendItem(a, sellerId), whatever it returns
ExtendItemCalled(a, sellerId) ==
  ExtendItem(a, sellerId) \/ ExtendItemRefused(a, sellerId)

\* C22: extendItem called with a sellerId that is not the auction's seller
\* returns extended:false and changes neither the engine (the extended flag),
\* the timer, itemEndTime nor the log, and sends no event
C22_ExtendByStrangerRefused ==
  [][\A a \in AuctionIds, sellerId \in Sellers :
       (sellerId # SellerOf(a) /\ ExtendItemCalled(a, sellerId))
       => /\ IsSome(extRefused'[a])
          /\ Val(extRefused'[a]).sellerId = sellerId
          /\ UNCHANGED <<auctions, orphanTimers, dbVars, redisVars, room>>]_vars

\* someone else asked to extend the LIVE, not yet extended first item whose
\* timer is armed, and was told 'Not the seller'; nothing was sent after the
\* auction_state of the start
C22_Witness ==
  /\ extRefused["a1"] = Some([sellerId |-> "someone-else", reason |-> "Not the seller"])
  /\ "a1" \in DOMAIN auctions
  /\ CurrentItemLive(auctions["a1"].engine)
  /\ ~CurrentItem(auctions["a1"].engine).extended
  /\ auctions["a1"].itemTimer = "armed"
  /\ auctions["a1"].itemEndTimeMs = Some(DEFAULT_ITEM_DURATION_SEC * 1000)
  /\ ~dbItem[ItemId("a1", 0)].extended
  /\ Len(room["a1"]) = 1

\* C23: an item is extended at most once: extendItem succeeds only on a LIVE
\* auction whose current item is LIVE and not extended; on an extended item
\* it is refused and changes neither the flag nor itemEndTime; and the
\* extended flag of an item of a registered auction never goes back to false
C23_ExtendedAtMostOnce ==
  [][\A a \in AuctionIds :
       /\ \A sellerId \in Sellers :
            /\ ExtendItem(a, sellerId)
               => /\ auctions[a].engine.status = "LIVE"
                  /\ CurrentItemLive(auctions[a].engine)
                  /\ ~CurrentItem(auctions[a].engine).extended
            /\ ( /\ ExtendItemCalled(a, sellerId)
                 /\ a \in DOMAIN auctions
                 /\ HasCurrentItem(auctions[a].engine)
                 /\ CurrentItem(auctions[a].engine).extended )
               => /\ IsSome(extRefused'[a]) /\ Val(extRefused'[a]).sellerId = sellerId
                  /\ UNCHANGED auctions
       /\ (a \in DOMAIN auctions /\ a \in DOMAIN auctions')
          => \A k \in 1..NItems :
               auctions[a].engine.items[k].extended
               => auctions'[a].engine.items[k].extended]_vars

\* C24: per auction at most one expiry timer is armed and it is the one the
\* entry records (no armed timer is left that no entry refers to); an entry
\* whose current item is not LIVE, closed or auction ended, has no armed timer
C24_OneTimerPerAuction ==
  \A a \in AuctionIds :
    /\ orphanTimers[a] = 0
    /\ (a \in DOMAIN auctions /\ ~CurrentItemLive(auctions[a].engine))
       => auctions[a].itemTimer # "armed"

\* onItemTimerExpired finds nothing to close: no entry, or no LIVE current
\* item of a LIVE auction
NothingToClose(a) ==
  \/ a \notin DOMAIN auctions
  \/ auctions[a].engine.status # "LIVE"
  \/ ~CurrentItemLive(auctions[a].engine)

\* C25: a timer callback that runs when the auction is not registered or its
\* current item is not LIVE changes no engine, arbiter or log state and sends
\* nothing to the room; and no item is closed that was already sold
C25_StaleTimerHarmlessNoDoubleClose ==
  [][\A a \in AuctionIds :
       /\ (ExpEnter(a) /\ NothingToClose(a))
          => /\ a \in DOMAIN auctions => auctions'[a].engine = auctions[a].engine
             /\ a \notin DOMAIN auctions => a \notin DOMAIN auctions'
             /\ UNCHANGED <<redisVars, dbVars, room>>
       /\ ClosesItem(a)
          => ItemSoldAt(a, auctions[a].engine.currentItemIndex) = {}]_vars

\* C26: a terminal transition made in memory is eventually in the log even if
\* its log write failed: an item the engine has closed is eventually SOLD or
\* UNSOLD in the log, an auction the engine has ended is eventually ENDED there
C26_TerminalTransitionsEventuallyLogged ==
  \A a \in AuctionIds :
    /\ \A k \in 1..NItems :
         (a \in DOMAIN auctions /\ auctions[a].engine.items[k].status \in Closed)
           ~> (dbItem[ItemId(a, k - 1)].status \in Closed)
    /\ (a \in DOMAIN auctions /\ auctions[a].engine.status = "ENDED")
         ~> (dbAuction[a].status = "ENDED")

\* placeBid call c is served now (it has the lock, the auction and its current
\* item are LIVE) with a key that is non-empty after normalizing
ServedWithKey(c) ==
  /\ calls[c].pc = "waitLock" /\ calls[c].pc' # "waitLock" /\ epoch' = epoch
  /\ NormalizeKey(calls[c].key) # NoKey
  /\ calls[c].auctionId \in DOMAIN auctions
  /\ auctions[calls[c].auctionId].engine.status = "LIVE"
  /\ CurrentItemLive(auctions[calls[c].auctionId].engine)

\* the outcome stored for call c's key, bidder and the item it is served on
StoredFor(c) ==
  idemResult[IdemScope(calls[c].auctionId,
                       auctions[calls[c].auctionId].engine.currentItemIndex,
                       calls[c].userId, NormalizeKey(calls[c].key))]

\* the call takes a step that leaves engine, arbiter bid, log and room alone
TouchesNothing == UNCHANGED <<auctions, redisBid, redisBidder, dbVars, room>>

\* C27: a placeBid with a non-empty key for which an outcome is stored (same
\* auction, item and bidder) returns that outcome unchanged, and none of its
\* steps runs the atomic check-and-set, updates the engine, writes the log or
\* sends an event
C27_StoredOutcomeReturnedVerbatim ==
  [][\A c \in CallIds :
       /\ (ServedWithKey(c) /\ IsSome(StoredFor(c)))
          => /\ calls[c].pc' = "gotExisting" /\ calls[c].flag'
             /\ calls[c].result' = Val(StoredFor(c))
             /\ TouchesNothing
       /\ (calls[c].pc = "gotExisting" /\ calls[c].flag
             /\ calls[c].pc' # "gotExisting" /\ epoch' = epoch)
          => /\ calls[c].pc' = "done"
             /\ calls[c].result' = calls[c].result
             /\ TouchesNothing]_vars

\* u1's bid of 2 with key k1 was accepted and logged; a retry with the same
\* key found the stored outcome and returned accepted:true after the lookup
\* alone: one Bid row, one auction_state after the start's
C27_Witness ==
  \E c, d \in CallIds :
    /\ c # d /\ SameBid(c, d) /\ calls[c].key = "k1"
    /\ ReturnedAccepted(c) /\ calls[c].wrote
    /\ ReturnedAccepted(d) /\ ~calls[d].wrote
    /\ calls[d].itemIndex = calls[c].itemIndex
    /\ calls[d].ahead = << >>
    /\ Len(dbBids) = 1
    /\ Len(room["a1"]) = 2

\* call c takes a step of its own in this process
Moves(c) == calls[c]' # calls[c] /\ epoch' = epoch

\* C28: a placeBid whose claim finds the PENDING marker (no outcome stored)
\* loses the claim and polls: it looks the outcome up at most maxAttempts (40)
\* times, then returns; it returns the stored outcome if it saw one and
\* accepted:false 'Duplicate bid in progress' otherwise, and none of its steps
\* runs the atomic check-and-set or writes the log
C28_LostClaimPollsThenGivesUp ==
  [][\A c \in CallIds :
       /\ (calls[c].pc = "gotExisting" /\ ~calls[c].flag /\ Moves(c)
             /\ Scope(calls[c]) \in idemPending)
          => /\ calls[c].pc' = "claimed" /\ ~calls[c].flag'
             /\ TouchesNothing
       /\ (calls[c].pc = "claimed" /\ ~calls[c].flag /\ Moves(c))
          => /\ calls[c].pc' = "poll" /\ calls[c].attempts' = 0
             /\ TouchesNothing
       /\ (calls[c].pc = "poll" /\ Moves(c))
          => /\ TouchesNothing
             /\ calls[c].attempts <= maxAttempts
             /\ calls[c].pc' \in {"poll", "done"}
             /\ calls[c].pc' = "poll"
                  => /\ calls[c].attempts' = calls[c].attempts + 1
                     /\ calls[c].attempts' <= maxAttempts
                     /\ idemResult[Scope(calls[c])] = None
             /\ calls[c].pc' = "done"
                  => IF calls[c].attempts < maxAttempts
                     THEN /\ IsSome(idemResult[Scope(calls[c])])
                          /\ calls[c].result' = Val(idemResult[Scope(calls[c])])
                     ELSE calls[c].result' = Rejected("Duplicate bid in progress", 0)]_vars

\* u1's bid with key k1 claimed the key and was cut off by a restart before it
\* stored an outcome; the retry with the same key, made while the marker was
\* still there, returned 'Duplicate bid in progress' and wrote no Bid row
C28_Witness ==
  \E c, d \in CallIds :
    /\ c # d
    /\ calls[c].pc = "lost" /\ calls[d].pc = "done"
    /\ calls[c].key = "k1" /\ calls[d].key = "k1"
    /\ calls[c].userId = calls[d].userId
    /\ calls[c].itemIndex = calls[d].itemIndex
    /\ calls[d].result = Rejected("Duplicate bid in progress", 0)
    /\ Scope(calls[d]) \in idemPending
    /\ idemResult[Scope(calls[d])] = None
    /\ ~calls[d].wrote

\* a call to Redis or the database fails in this step
CallFails == faults' # faults

\* the step leaves every engine as it was
EnginesKept ==
  /\ DOMAIN auctions' = DOMAIN auctions
  /\ \A a \in DOMAIN auctions : auctions'[a].engine = auctions[a].engine

\* call d is a retry of call c: same auction, item, bidder and non-empty key,
\* made after c had ended in an exception
RetryOf(d, c) ==
  /\ c < d
  /\ calls[c].pc = "threw" /\ calls[d].pc = "done"
  /\ calls[c].auctionId = calls[d].auctionId
  /\ calls[c].userId = calls[d].userId
  /\ calls[c].amount = calls[d].amount
  /\ calls[c].itemIndex = calls[d].itemIndex
  /\ NormalizeKey(calls[c].key) # NoKey
  /\ NormalizeKey(calls[c].key) = NormalizeKey(calls[d].key)
  /\ \A k \in 1..Len(calls[d].ahead) : calls[d].ahead[k] # c

\* a retry is processed: it is not turned away as a duplicate in progress
RetryIsProcessed ==
  \A c, d \in CallIds :
    RetryOf(d, c) => calls[d].result.reason # "Duplicate bid in progress"

\* C29: when a Redis or database call fails during a mutation the mutation
\* fails as a whole (the engine is left as it was and no auction_state is
\* sent), and a retry of the bid with the same idempotency key is processed to
\* an accepted or rejected outcome
C29_UnavailableFailsWholeMutation ==
  /\ [][CallFails => (EnginesKept /\ room' = room)]_vars
  /\ []RetryIsProcessed

\* the reasons placeBid gives before it turns to the arbiter
EarlyReasons ==
  {"Auction not found", NotLiveReason("CREATED"), NotLiveReason("ENDED"),
   "No item currently being auctioned", TooLow}
RejectedEarly(r) == ~r.accepted /\ r.reason \in EarlyReasons

\* the bid of call c is not admissible when it is served: the auction is
\* unknown or not LIVE, its current item is not LIVE, or the amount does not
\* exceed the item's highestBid
Inadmissible(c) ==
  LET a == calls[c].auctionId IN
  \/ a \notin DOMAIN auctions
  \/ auctions[a].engine.status # "LIVE"
  \/ ~CurrentItemLive(auctions[a].engine)
  \/ calls[c].amount <= CurrentItem(auctions[a].engine).highestBid

\* C30: a bid rejected because the auction is unknown or not LIVE, the current
\* item is not LIVE or the amount is <= the item's highestBid (equal included)
\* never reaches the atomic check-and-set, and the steps that reject it leave
\* the engine, the arbiter's highest bid and bidder, the Bid rows and the room
\* as they were
C30_EarlyRejectionTouchesNothing ==
  [][\A c \in CallIds :
       /\ (calls[c].pc = "waitLock" /\ Moves(c) /\ Inadmissible(c))
          => /\ calls[c].pc' # "checked"
             /\ TouchesNothing
             /\ NormalizeKey(calls[c].key) = NoKey
                  => calls[c].pc' = "done" /\ RejectedEarly(calls[c].result')
       /\ (calls[c].pc = "claimed" /\ calls[c].flag /\ Moves(c)
             /\ calls[c].amount <= calls[c].seen)
          => /\ calls[c].pc' \in {"stored", "threw"}
             /\ TouchesNothing
             /\ calls[c].pc' = "stored"
                  => calls[c].result' = Rejected(TooLow, calls[c].seen)
       /\ (Moves(c) /\ calls[c].pc # "stored" /\ calls[c].pc' \in {"done", "stored"}
             /\ RejectedEarly(calls[c].result'))
          => /\ calls[c].pc \notin {"checked", "persisted"}
             /\ ~calls[c].wrote'
             /\ TouchesNothing]_vars

\* u1's 2 was accepted; u2 then bid the same 2 with key k1 and was refused
\* against 2: the arbiter and the engine still name u1 at 2, there is one Bid
\* row and one bid broadcast, and the refusal is what the key now stores
C30_Witness ==
  \E c, d \in CallIds :
    /\ ReturnedAccepted(c) /\ calls[c].userId = "u1" /\ calls[c].amount = 2
    /\ calls[d].pc = "done" /\ calls[d].userId = "u2" /\ calls[d].amount = 2
    /\ calls[d].key = "k1"
    /\ calls[d].result = Rejected(TooLow, 2)
    /\ redisBid[ItemId("a1", 0)] = Some(2)
    /\ redisBidder[ItemId("a1", 0)] = "u1"
    /\ "a1" \in DOMAIN auctions
    /\ auctions["a1"].engine.items[1].highestBid = 2
    /\ auctions["a1"].engine.items[1].highestBidderId = "u1"
    /\ Len(dbBids) = 1
    /\ Len(room["a1"]) = 2
    /\ idemResult[IdemScope("a1", 0, "u2", "k1")] = Some(Rejected(TooLow, 2))

\* the engine's current item of call c's auction names the call's bid
EngineNamesBid(c, registry) ==
  LET a == calls[c].auctionId IN
  /\ a \in DOMAIN registry
  /\ HasCurrentItem(registry[a].engine)
  /\ registry[a].engine.currentItemIndex = calls[c].itemIndex
  /\ CurrentItem(registry[a].engine).highestBid = calls[c].amount
  /\ CurrentItem(registry[a].engine).highestBidderId = calls[c].userId

\* C31: whenever atomicBidCheck has accepted a bid inside placeBid, the
\* engine.placeBid that follows accepts it too, and from then until the call
\* returns the engine's current item carries the bid's amount and bidder
C31_EngineAcceptsWhatArbiterAccepted ==
  [][\A c \in CallIds :
       /\ (calls[c].pc = "checked" /\ calls[c].flag /\ Moves(c))
          => /\ calls[c].auctionId \in DOMAIN auctions
             /\ EnginePlaceBid(auctions[calls[c].auctionId].engine,
                               calls[c].userId, calls[c].amount).ok
             /\ EngineNamesBid(c, auctions')
       /\ (calls[c].pc = "persisted" /\ Moves(c))
          => EngineNamesBid(c, auctions) /\ EngineNamesBid(c, auctions')
       /\ (calls[c].pc = "stored" /\ calls[c].result.accepted /\ Moves(c))
          => EngineNamesBid(c, auctions')]_vars

\* u1's 2 and then u2's 3 were both accepted by the arbiter and the engine on
\* item 0, which now names u2 at 3 in both
C31_Witness ==
  \E c, d \in CallIds :
    /\ ReturnedAccepted(c) /\ calls[c].userId = "u1" /\ calls[c].amount = 2
    /\ ReturnedAccepted(d) /\ calls[d].userId = "u2" /\ calls[d].amount = 3
    /\ calls[c].itemIndex = 0 /\ calls[d].itemIndex = 0
    /\ calls[c].epoch = calls[d].epoch
    /\ EngineNamesBid(d, auctions)
    /\ redisBid[ItemId("a1", 0)] = Some(3)
    /\ redisBidder[ItemId("a1", 0)] = "u2"

\* auction a stays in this process's registry over the step
Stays(a) == epoch' = epoch /\ a \in DOMAIN auctions /\ a \in DOMAIN auctions'

\* item i of auction a becomes LIVE in the engine in this step
GoesLive(a, i) ==
  /\ Stays(a)
  /\ auctions[a].engine.items[i + 1].status # "LIVE"
  /\ auctions'[a].engine.items[i + 1].status = "LIVE"

\* item i of auction a is closed by the engine in this step
Closes(a, i) ==
  /\ Stays(a)
  /\ auctions[a].engine.items[i + 1].status = "LIVE"
  /\ auctions'[a].engine.items[i + 1].status \in Closed

\* call c has its bid arbitrated in this step
Arbitrated(c) == Moves(c) /\ calls[c].pc # "checked" /\ calls[c].pc' = "checked"

\* the item enters the engine at its starting price with no bidder
FreshInEngine(a, i) ==
  LET item == auctions'[a].engine.items[i + 1] IN
  item.highestBid = item.startingPrice /\ item.highestBidderId = NULL

\* the arbiter holds the starting price and no bidder for the item
FreshInArbiter(a, i) ==
  /\ redisBid'[ItemId(a, i)] = Some(auctions'[a].engine.items[i + 1].startingPrice)
  /\ redisBidder'[ItemId(a, i)] = NULL

\* C32: an item that becomes LIVE (startAuction or advance) has highestBid =
\* startingPrice and no bidder; the arbiter is seeded with the starting price
\* and no bidder when it goes LIVE, so no bid on it is arbitrated against
\* missing keys; currentItemIndex grows by exactly 1 per advance; and after
\* the item has closed clearItem deletes its arbiter keys
C32_ItemsGoLiveFreshAndSeeded ==
  [][/\ \A a \in AuctionIds, i \in ItemIndexes :
          /\ GoesLive(a, i)
             => /\ FreshInEngine(a, i)
                /\ ~CallFails => FreshInArbiter(a, i)
                /\ auctions'[a].engine.currentItemIndex = i
                /\ i > 0 => auctions[a].engine.currentItemIndex = i - 1
          /\ Stays(a)
             => auctions'[a].engine.currentItemIndex \in
                  {auctions[a].engine.currentItemIndex,
                   auctions[a].engine.currentItemIndex + 1}
          /\ (exp[a].pc = "itemPersisted" /\ exp'[a].pc # "itemPersisted"
                /\ epoch' = epoch /\ ~CallFails)
             => /\ redisBid'[ItemId(a, exp[a].itemIndex)] = None
                /\ redisBidder'[ItemId(a, exp[a].itemIndex)] = NULL
     /\ \A c \in CallIds :
          Arbitrated(c) => IsSome(redisBid[ItemId(calls[c].auctionId, calls[c].itemIndex')])
    ]_vars

\* the last item of auction a is closed in the registry's engine
LastItemClosed(a) ==
  a \in DOMAIN auctions /\ auctions[a].engine.items[NItems].status \in Closed

\* every auction_ended sent to the room of a has one result per item, with a
\* winner only for the items that the state sent along with it shows SOLD
ResultsNameSoldOnly(a) ==
  \A k \in AuctionEndedAt(a) :
    /\ DOMAIN room[a][k].results = 1..NItems
    /\ k < Len(room[a]) /\ room[a][k + 1].event = "auction_state"
    /\ room[a][k + 1].state.status = "ENDED"
    /\ \A i \in 1..NItems :
         room[a][k].results[i].winnerId # NULL
           => room[a][k + 1].state.items[i].status = "SOLD"

\* no arbiter key of auction a is left
NoArbiterKeys(a) ==
  \A i \in ItemIndexes : redisBid[ItemId(a, i)] = None /\ redisBidder[ItemId(a, i)] = NULL

\* C33: when the last item of an auction closes the auction becomes ENDED:
\* auction_ended carries one result per item (a winner only for SOLD items),
\* the arbiter keys of all its items are deleted and the auction leaves the
\* registry; from then on placeBid, extendItem and startAuction for it find no
\* entry ('Auction not found') and change nothing
C33_LastCloseEndsAndRemovesAuction ==
  /\ [](\A a \in AuctionIds :
          /\ ResultsNameSoldOnly(a)
          /\ (LastItemClosed(a) /\ ~Holds(a, ExpiryTask)) => FALSE
          /\ AuctionEndedSent(a)
             => /\ a \notin DOMAIN auctions
                /\ NoArbiterKeys(a)
                /\ ExtendRefusal(a, SellerOf(a)) = Some("Auction not found")
                /\ ~ENABLED StartAuction(a))
  /\ [][\A c \in CallIds :
          (AuctionEndedSent(calls[c].auctionId) /\ calls[c].pc = "waitLock" /\ Moves(c))
            => /\ calls[c].pc' = "done"
               /\ calls[c].result' = Rejected("Auction not found", 0)
               /\ UNCHANGED <<auctions, redisVars, dbVars, room>>]_vars

\* both items of a1 were closed, auction_ended was sent, and a bid made after
\* that came back with 'Auction not found'
C33_Witness ==
  /\ AuctionEndedSent("a1")
  /\ "a1" \notin DOMAIN auctions
  /\ dbAuction["a1"].status = "ENDED"
  /\ \E c \in CallIds :
       /\ calls[c].pc = "done"
       /\ calls[c].result = Rejected("Auction not found", 0)

\* endAuction called on state s and then once more
EndedTwice(s) ==
  LET first == EngineEndAuction(s)
      later == EngineEndAuction(first.state)
  IN [first |-> first, later |-> later]

\* C34: engine endAuction is idempotent. Called on an engine that is not
\* ENDED it sets status ENDED and returns a summary that names a winner only
\* for SOLD items; called again it changes nothing and returns the same summary
C34_EndAuctionIdempotent ==
  probe.engine.status # "ENDED"
    => LET s == probe.engine
           r == EndedTwice(s)
       IN /\ r.first.state = [s EXCEPT !.status = "ENDED"]
          /\ \A k \in DOMAIN s.items :
               r.first.results[k].winnerId # NULL => s.items[k].status = "SOLD"
          /\ r.later.state = r.first.state
          /\ r.later.results = r.first.results

\* what startAuction does to engine state s when it succeeds
Started(s) ==
  [s EXCEPT !.status = "LIVE",
            !.items = [k \in DOMAIN s.items |->
                         IF k = 1
                         THEN [s.items[k] EXCEPT !.status = "LIVE",
                                                 !.highestBid = s.items[k].startingPrice]
                         ELSE s.items[k]]]

\* C35: engine startAuction succeeds exactly when the status is CREATED and
\* there is an item; it then makes the auction LIVE and the first item, and no
\* other, LIVE at its starting price. Otherwise it fails and leaves the state
\* as it is; an engine that has left CREATED never returns to it, so at most
\* one start of an engine succeeds
C35_StartOnlyFromCreatedOnce ==
  /\ [](LET s == probe.engine
            r == EngineStartAuction(s)
        IN /\ r.ok <=> (s.status = "CREATED" /\ Len(s.items) > 0)
           /\ r.ok => /\ r.state = Started(s)
                       /\ \A k \in DOMAIN s.items :
                            r.state.items[k].status = "LIVE" <=> k = 1
                       /\ ~EngineStartAuction(r.state).ok
           /\ ~r.ok => r.state = s)
  /\ [][probe.engine.status # "CREATED" => probe.engine.status' # "CREATED"]_vars

\* the engine was started, a bid of 2 by u1 was placed on its first item, and
\* a second start is refused and would change nothing
C35_Witness ==
  /\ probe.engine.status = "LIVE"
  /\ probe.engine.currentItemIndex = 0
  /\ probe.engine.items[1].status = "LIVE"
  /\ probe.engine.items[1].highestBid = 2
  /\ probe.engine.items[2].status = "PENDING"
  /\ ~EngineStartAuction(probe.engine).ok
  /\ EngineStartAuction(probe.engine).state = probe.engine

\* auction a has been started: its engine is LIVE in the registry
Running(a) == a \in DOMAIN auctions /\ auctions[a].engine.status = "LIVE"

\* auction a has ended: auction_ended was sent with every item SOLD or UNSOLD,
\* after one item_sold per item in item order, and the registry let it go
EndedInOrder(a) ==
  /\ a \notin DOMAIN auctions
  /\ AuctionEndedAt(a) # {}
  /\ \A k \in AuctionEndedAt(a) :
       /\ k < Len(room[a])
       /\ room[a][k + 1].state.status = "ENDED"
       /\ \A i \in 1..NItems : room[a][k + 1].state.items[i].status \in Closed
       /\ \A i \in ItemIndexes : \E m \in ItemSoldAt(a, i) : m < k
  /\ \A i, j \in ItemIndexes :
       i < j => \A m \in ItemSoldAt(a, i), n \in ItemSoldAt(a, j) : m < n

\* C36: when timers fire, lock holders finish and every Arbiter and Log call
\* succeeds, every started auction eventually reaches ENDED, each of its
\* items having ended SOLD or UNSOLD in item order, whatever bids and
\* extensions arrive in between
C36_StartedAuctionEventuallyEnds ==
  \A a \in AuctionIds : Running(a) ~> [](EndedInOrder(a))

\* a1 has ended in order after both of its items were extended and the second
\* one was sold to u1
C36_Witness ==
  /\ EndedInOrder("a1")
  /\ dbItem[ItemId("a1", 0)].extended /\ dbItem[ItemId("a1", 1)].extended
  /\ \E k \in ItemSoldAt("a1", 1) : room["a1"][k].winnerId = "u1"
  /\ \E k \in ItemSoldAt("a1", 0) : room["a1"][k].winnerId = NULL

\* the arbiter's keys of the current item of a agree with the engine: the same
\* highest bid, and the engine's bidder when the engine has one
ArbiterMirrorsEngine(a) ==
  LET s == auctions[a].engine
      item == ItemId(a, s.currentItemIndex)
  IN /\ redisBid[item] = Some(CurrentItem(s).highestBid)
     /\ CurrentItem(s).highestBidderId # NULL
          => redisBidder[item] = CurrentItem(s).highestBidderId

\* C37: whenever no mutation of an auction is in progress and its current
\* item is LIVE, the arbiter's highest_bid for the item equals the engine's
\* highestBid and its highest_bidder equals the engine's highestBidderId when
\* there is one; under every interleaving of startAuction, placeBid and
\* expiry, and after recovery
C37_ArbiterMirrorsEngineWhenQuiet ==
  \A a \in AuctionIds :
    ( /\ InProgress(a) = 0
      /\ a \in DOMAIN auctions
      /\ auctions[a].engine.status = "LIVE"
      /\ CurrentItemLive(auctions[a].engine) )
    => ArbiterMirrorsEngine(a)

\* the Bid rows of the items of auction a
BidRowsOf(a) == SelectSeq(dbBids, LAMBDA row : row.itemId[1] = a)

\* everything the service keeps for auction a: registry entry (engine, timer,
\* itemEndTime), lock chain, arbiter keys, log rows and room
PartsOf(a) ==
  << IF a \in DOMAIN auctions THEN Some(auctions[a]) ELSE None,
     lockQ[a], orphanTimers[a],
     [i \in ItemIndexes |-> << redisBid[ItemId(a, i)], redisBidder[ItemId(a, i)],
                               dbItem[ItemId(a, i)], dbResult[ItemId(a, i)] >>],
     dbAuction[a], BidRowsOf(a), room[a] >>

\* the mutation waiting at the head of a lock chain can take its first step
HeadCanRun(a) ==
  /\ (Holds(a, ExpiryTask) /\ exp[a].pc = "idle") => ENABLED ExpEnter(a)
  /\ \A c \in CallIds :
       (calls[c].auctionId = a /\ calls[c].pc = "waitLock" /\ Holds(a, c))
         => ENABLED BidEnter(c)

\* C38: a mutation on one auction (start, bid, extend, expiry) leaves the
\* engine, timer, itemEndTime, arbiter keys and log rows of every other
\* auction unchanged, and a lock held for one auction never delays a mutation
\* on another: whoever is at the head of its own auction's chain can run
C38_AuctionsAreIsolated ==
  /\ [][\A a, b \in TwoAuctions :
          /\ (a # b /\ PartsOf(a)' # PartsOf(a)) => PartsOf(b)' = PartsOf(b)
          /\ \A c \in CallIds :
               (Moves(c) /\ calls[c]'.auctionId = a /\ a # b)
                 => PartsOf(b)' = PartsOf(b)]_vars
  /\ [](\A a \in TwoAuctions : HeadCanRun(a))

\* a1's expiry handler holds a1's lock in the middle of closing its extended
\* item while u2's bid in a2, served after that handler began, has been
\* accepted by the arbiter and holds a2's lock
C38_Witness ==
  /\ Holds("a1", ExpiryTask) /\ exp["a1"].pc = "itemPersisted"
  /\ auctions["a1"].engine.items[1].extended
  /\ Holds("a2", 1) /\ calls[1].pc = "checked" /\ calls[1].flag
  /\ redisBid[ItemId("a2", 0)] = Some(MaxAmount)
  /\ redisBid[ItemId("a1", 0)] = Some(StartingPriceOf(0))

\* ------------------------------------------------------------- C39
InsideBid(c) ==
  calls[c].pc \in {"gotExisting", "claimed", "poll", "checked", "persisted", "stored"}
FinishedBid(c) == calls[c].pc \in {"done", "threw"}
BidsOn(a) == {c \in CallIds : calls[c].pc # "unused" /\ calls[c].auctionId = a}
Waiting(a) == {lockQ[a][k] : k \in DOMAIN lockQ[a]}

\* whoever is inside the protected function is the head of the chain, and
\* there is at most one of them
OneHolder(a) ==
  /\ (IF exp[a].pc # "idle" THEN 1 ELSE 0)
       + Cardinality({c \in BidsOn(a) : InsideBid(c)}) <= 1
  /\ exp[a].pc # "idle" => Holds(a, ExpiryTask)
  /\ \A c \in BidsOn(a) : InsideBid(c) => Holds(a, c)

\* of two bids of one process on one auction the later one is not let in
\* before the earlier one is over
ServedInOrder(a) ==
  \A c, d \in BidsOn(a) :
    (c < d /\ calls[c].epoch = calls[d].epoch /\ (InsideBid(d) \/ FinishedBid(d)))
      => FinishedBid(c)

\* a call that returned or threw is no longer in the chain, and the head of
\* the chain is either inside or free to go in
NeverBlocked(a) ==
  /\ \A c \in BidsOn(a) : FinishedBid(c) => c \notin Waiting(a)
  /\ HeadCanRun(a)
  /\ \A c \in BidsOn(a) : Holds(a, c) => (InsideBid(c) \/ calls[c].pc = "waitLock")

\* the chain grows at its end and shrinks at its head; the step that ends a
\* protected function takes its caller off the chain
ChainStep(a) ==
  \/ epoch' # epoch
  \/ /\ \/ lockQ[a]' = lockQ[a]
        \/ \E who \in CallIds \cup {ExpiryTask} : lockQ[a]' = Append(lockQ[a], who)
        \/ lockQ[a] # << >> /\ lockQ[a]' = Tail(lockQ[a])
     /\ \A c \in BidsOn(a) :
          (~FinishedBid(c) /\ FinishedBid(c)')
            => (Holds(a, c) /\ lockQ[a]' = Tail(lockQ[a]))
     /\ (exp[a].pc # "idle" /\ exp[a].pc' = "idle") => lockQ[a]' = Tail(lockQ[a])
     /\ \A c \in BidsOn(a) :
          (calls[c].pc = "waitLock" /\ calls[c].pc' # "waitLock") => Holds(a, c)

\* C39: withAuctionLock lets the callers of one auction into the protected
\* function in the order in which they asked, one at a time, and lets go when
\* the function returns or throws, so that a mutation that failed does not
\* keep those queued behind it waiting
C39_LockIsFifoExclusiveAndReleased ==
  /\ [](\A a \in AuctionIds : OneHolder(a) /\ ServedInOrder(a) /\ NeverBlocked(a))
  /\ [][\A a \in AuctionIds : ChainStep(a)]_vars

\* a bid threw inside the protected function, and a bid that had queued up
\* behind it went in and returned
C39_Witness ==
  \E c, d \in CallIds :
    /\ calls[c].pc = "threw" /\ calls[d].pc = "done"
    /\ calls[c].auctionId = calls[d].auctionId
    /\ c \in {calls[d].ahead[k] : k \in DOMAIN calls[d].ahead}

\* ------------------------------------------------------------- C40
\* the end time emitState publishes for the current item is the entry's
\* itemEndTimeMs
PublishedEnd(a) == auctions[a].itemEndTimeMs
ClosedEarly(a) ==
  \E i \in ItemIndexes :
    /\ Closes(a, i)
    /\ IsSome(PublishedEnd(a))
    /\ now < Val(PublishedEnd(a))

\* C40: no LIVE item is closed before the end time most recently published
\* for it, neither by an expiry that was pending when the seller extended the
\* item nor by a timer left over from an earlier item or schedule
C40_NoItemClosedBeforePublishedEnd ==
  [][\A a \in AuctionIds : ~ClosedEarly(a)]_vars

====
